---- MODULE Spec2Model ----
(***************************************************************************)
(* A model of obsidian-mcp: the LRUCache (src/lru-cache.ts), the content   *)
(* store FileUtils (utils/file-utils.ts), the LinkParser link graph        *)
(* (utils/link-parser.ts), GraphUtils (utils/graph-utils.ts) and           *)
(* SearchUtils.searchText (utils/search-utils.ts).                         *)
(*                                                                         *)
(* A cache object is a record                                              *)
(*   [entries, currentSize, maxSize, maxItems, ttl]                        *)
(* where entries is the JavaScript Map in insertion order (index 1 is the  *)
(* first key the Map iterates, the eviction end).  Every method is an      *)
(* operator from a cache object (and Date.now()) to the cache object after *)
(* the call, so that the same definitions serve every instance.            *)
(***************************************************************************)
EXTENDS Integers, Sequences, FiniteSets, TLC

VARIABLES
  lru,            \* the LRUCache instance exercised on its own
  now,            \* Date.now()
  last,           \* the last call made on lru and what it returned
  disk,           \* the vault's notes: name -> [present, content]
  unreadable,     \* notes whose fs.readFile fails (permissions)
  fileCache,      \* index.ts fileCache, the cache of FileUtils
  searchCache,    \* index.ts searchCache, the cache of SearchUtils
  linkCache,      \* LinkParser.linkCache
  backlinkCache,  \* LinkParser.backlinkCache
  graphLinkCache, \* GraphUtils.linkCache
  vlast,          \* the last call made on the vault and what it returned
  scan,           \* the PerformanceHelpers.batchProcess call under way
  sim,            \* the strings given to calculateStringSimilarity and what it returned
  upd,            \* the text given to updateLinks and what it returned
  pool,           \* the FileOperationPool instance exercised on its own
  stats,          \* the getVaultStatistics call under way: its processors
  calls           \* the FileUtils calls started and how far each has come

cacheVars == <<lru, last>>
vaultVars == <<disk, unreadable, fileCache, searchCache, linkCache, backlinkCache,
               graphLinkCache, vlast>>
scanVars == <<scan, sim, upd, pool, stats, calls>>
vars == <<lru, now, last, disk, unreadable, fileCache, searchCache, linkCache,
          backlinkCache, graphLinkCache, vlast, scan, sim, upd, pool, stats, calls>>

\* ------------------------------------------------------------------------
\* Bounds of the model
\* ------------------------------------------------------------------------
MaxTime == 2
MaxAccess == 2
MaxWaits == 2
MaxDepth == 2
MaxItems == 11
MaxLen == 2
MaxReads == 3
MaxCalls == 2
MaxOperations == 4
MaxStarted == 3

\* ------------------------------------------------------------------------
\* Program constants
\* ------------------------------------------------------------------------
DefaultTtl == 3600000

\* ------------------------------------------------------------------------
\* Inputs
\* ------------------------------------------------------------------------
Keys == {"a", "b", "c"}
\* constructor options tried: [maxSize, maxItems, ttl]; ttl 0 stands for an
\* omitted (or zero) ttl option
CacheOptions ==
  { [maxSize |-> 2, maxItems |-> 10, ttl |-> 0],
    [maxSize |-> 4, maxItems |-> 2, ttl |-> 1],
    [maxSize |-> 0, maxItems |-> 10, ttl |-> 0] }
\* set(key, value, byteSize) calls tried on a cache: byteSize negative, zero,
\* one, the limit and one more than the limit
SetInputs(c) ==
  { [key |-> "a", value |-> "v1", size |-> 1],
    [key |-> "a", value |-> "v2", size |-> 0 - 1],
    [key |-> "b", value |-> "v1", size |-> 1],
    [key |-> "b", value |-> "v2", size |-> 0],
    [key |-> "b", value |-> "v2", size |-> c.maxSize],
    [key |-> "c", value |-> "v1", size |-> 1],
    [key |-> "c", value |-> "v2", size |-> c.maxSize + 1] }

\* ------------------------------------------------------------------------
\* LRUCache
\* ------------------------------------------------------------------------
NoValue == "undefined"

\* new LRUCache(options)
NewCache(options) ==
  [ entries |-> << >>,
    currentSize |-> 0,
    maxSize |-> options.maxSize,
    maxItems |-> options.maxItems,
    ttl |-> IF options.ttl = 0 THEN DefaultTtl ELSE options.ttl ]

\* Map.has / Map.get on the entries
IndexOfKey(entries, key) ==
  IF \E i \in 1..Len(entries) : entries[i].key = key
  THEN CHOOSE i \in 1..Len(entries) : entries[i].key = key
  ELSE 0

MapHas(entries, key) == IndexOfKey(entries, key) # 0

\* Map.delete: the other keys keep their order
MapDelete(entries, key) ==
  SelectSeq(entries, LAMBDA e : e.key # key)

KeysOf(entries) == { entries[i].key : i \in 1..Len(entries) }

\* Date.now() - entry.lastAccessed > this.ttl
IsExpiredAtTtl(c, e, t) == t - e.lastAccessed >= c.ttl

IsExpired(c, e, t) == t - e.lastAccessed > c.ttl

\* delete(key)
CacheDeleteNoRefund(c, key) == [c EXCEPT !.entries = MapDelete(c.entries, key)]

CacheDelete(c, key) ==
  LET i == IndexOfKey(c.entries, key) IN
  IF i # 0
  THEN [c EXCEPT !.currentSize = c.currentSize - c.entries[i].size,
                 !.entries = MapDelete(c.entries, key)]
  ELSE c

\* removeExpired(): delete every entry whose age exceeds ttl
RECURSIVE DeleteAll(_, _)
DeleteAll(c, keysToDelete) ==
  IF keysToDelete = << >> THEN c
  ELSE DeleteAll(CacheDelete(c, Head(keysToDelete)), Tail(keysToDelete))

ExpiredKeys(c, t) ==
  LET exp == SelectSeq(c.entries, LAMBDA e : IsExpired(c, e, t))
  IN [i \in 1..Len(exp) |-> exp[i].key]

RemoveExpired(c, t) == DeleteAll(c, ExpiredKeys(c, t))

\* the while loop of ensureSpace: delete the first key of the Map until the
\* new item fits (keys are non-empty strings, so `if (firstKey)` holds)
RECURSIVE EvictLoop(_, _)
EvictLoopMRU(c, requiredSize) ==
  IF (c.currentSize + requiredSize > c.maxSize \/ Len(c.entries) >= c.maxItems)
     /\ Len(c.entries) > 0
  THEN EvictLoop(CacheDelete(c, c.entries[Len(c.entries)].key), requiredSize)
  ELSE c

EvictLoop(c, requiredSize) ==
  IF (c.currentSize + requiredSize > c.maxSize \/ Len(c.entries) >= c.maxItems)
     /\ Len(c.entries) > 0
  THEN EvictLoop(CacheDelete(c, c.entries[1].key), requiredSize)
  ELSE c

\* ensureSpace(requiredSize)
EnsureSpace(c, requiredSize, t) ==
  IF requiredSize > c.maxSize
  THEN c
  ELSE EvictLoop(RemoveExpired(c, t), requiredSize)

\* set(key, value, size)
CacheSet(c, key, value, size, t) ==
  LET c1 == IF MapHas(c.entries, key) THEN CacheDelete(c, key) ELSE c
      c2 == EnsureSpace(c1, size, t)
      entry == [key |-> key, value |-> value, size |-> size,
                lastAccessed |-> t, accessCount |-> 1]
  IN [c2 EXCEPT !.entries = Append(MapDelete(c2.entries, key), entry),
                !.currentSize = c2.currentSize + size]

\* get(key): the cache after the call and the value returned (hit is FALSE
\* where get returns undefined)
CacheGetKeepsOrder(c, key, t) ==
  LET i == IndexOfKey(c.entries, key) IN
  IF i = 0 THEN [cache |-> c, hit |-> FALSE, value |-> NoValue]
  ELSE IF IsExpired(c, c.entries[i], t)
       THEN [cache |-> CacheDelete(c, key), hit |-> FALSE, value |-> NoValue]
       ELSE [cache |-> [c EXCEPT !.entries[i].lastAccessed = t,
                                 !.entries[i].accessCount = @ + 1],
             hit |-> TRUE, value |-> c.entries[i].value]

CacheGet(c, key, t) ==
  LET i == IndexOfKey(c.entries, key) IN
  IF i = 0 THEN [cache |-> c, hit |-> FALSE, value |-> NoValue]
  ELSE IF IsExpired(c, c.entries[i], t)
       THEN [cache |-> CacheDelete(c, key), hit |-> FALSE, value |-> NoValue]
       ELSE LET e == [c.entries[i] EXCEPT !.lastAccessed = t,
                                          !.accessCount = @ + 1]
            IN [cache |-> [c EXCEPT !.entries = Append(MapDelete(c.entries, key), e)],
                hit |-> TRUE, value |-> e.value]

\* has(key)
CacheHasTouches(c, key, t) ==
  [cache |-> CacheGet(c, key, t).cache, ret |-> CacheGet(c, key, t).hit]

CacheHas(c, key, t) ==
  LET i == IndexOfKey(c.entries, key) IN
  IF i = 0 THEN [cache |-> c, ret |-> FALSE]
  ELSE IF IsExpired(c, c.entries[i], t)
       THEN [cache |-> CacheDelete(c, key), ret |-> FALSE]
       ELSE [cache |-> c, ret |-> TRUE]

\* clear()
CacheClear(c) == [c EXCEPT !.entries = << >>, !.currentSize = 0]

\* getStats(): itemCount and totalSize
RECURSIVE SumSizes(_)
SumSizes(entries) ==
  IF entries = << >> THEN 0 ELSE Head(entries).size + SumSizes(Tail(entries))

GetStats(c) ==
  [itemCount |-> Len(c.entries), totalSize |-> c.currentSize, maxSize |-> c.maxSize]

\* ------------------------------------------------------------------------
\* Documents: paths and content
\* ------------------------------------------------------------------------
\* A path string of the (flat) vault is a note name with or without the
\* ".md" suffix: "a" is [name |-> "a", md |-> FALSE], "a.md" has md TRUE.
Names == <<"a", "b", "c">>
NameSet == { Names[i] : i \in 1..Len(Names) }
MdPath(n) == [name |-> n, md |-> TRUE]
BarePath(n) == [name |-> n, md |-> FALSE]

\* Other strings that name a note of the vault: toAbsolutePath joins a
\* relative path to the vault path, which drops a leading "./", and returns
\* an absolute path as it is.  form tells the spelling; the file named is
\* still the one called name.
DottedPath(n) == [name |-> n, md |-> TRUE, form |-> "./"]
AbsolutePath(n) == [name |-> n, md |-> TRUE, form |-> "/vault/"]

\* FileUtils.ensureMarkdownExtension
EnsureMarkdownExtension(filePath) ==
  IF ~filePath.md THEN [filePath EXCEPT !.md = TRUE] ELSE filePath

\* A document is a sequence of lines, a line a sequence of tokens: a word of
\* one character, an inline #tag, a wiki link [[target]], [[target.md]] or
\* [[target|display]], or a markdown link [display](target.md). text is the
\* word, tag or target name, md tells whether the target is written with
\* ".md", display is the one-character display text ("" when there is none).
\* A long stretch of text is a run: count times the same character.
Word(w) == [kind |-> "word", text |-> w, md |-> FALSE, display |-> ""]
Wiki(n) == [kind |-> "wiki", text |-> n, md |-> FALSE, display |-> ""]
Tag(t) == [kind |-> "tag", text |-> t, md |-> FALSE, display |-> ""]
WikiMd(n) == [kind |-> "wiki", text |-> n, md |-> TRUE, display |-> ""]
WikiAs(n, shown) == [kind |-> "wiki", text |-> n, md |-> FALSE, display |-> shown]
MdLink(shown, n) == [kind |-> "markdown", text |-> n, md |-> TRUE, display |-> shown]
Run(w, n) == [kind |-> "run", text |-> w, md |-> FALSE, display |-> "", count |-> n]

\* the number of characters of a token: x, #t, [[n]], [[n.md]], [[n|d]],
\* [d](n.md)
TokenLength(tok) ==
  LET target == 1 + (IF tok.md THEN 3 ELSE 0)
      shown == IF tok.display = "" THEN 0 ELSE 1
  IN IF tok.kind = "word" THEN 1
     ELSE IF tok.kind = "run" THEN tok.count
     ELSE IF tok.kind = "tag" THEN 2
     ELSE IF tok.kind = "wiki" THEN 4 + target + (IF shown = 1 THEN 2 ELSE 0)
     ELSE 4 + target + shown

RECURSIVE LineLength(_)
LineLength(line) ==
  IF line = << >> THEN 0 ELSE TokenLength(Head(line)) + LineLength(Tail(line))

\* content.length, also Buffer.byteLength(content, 'utf8') for ASCII text:
\* the lines and the "\n" between them
RECURSIVE ContentLength(_)
ContentLength(content) ==
  IF content = << >> THEN 0
  ELSE IF Len(content) = 1 THEN LineLength(content[1])
  ELSE LineLength(Head(content)) + 1 + ContentLength(Tail(content))

\* all tokens of a document in reading order
RECURSIVE Tokens(_)
Tokens(content) ==
  IF content = << >> THEN << >> ELSE Head(content) \o Tokens(Tail(content))

\* ObsidianParser.extractAllLinks: the links in order of position
ExtractAllLinks(content) ==
  LET links == SelectSeq(Tokens(content),
                         LAMBDA tok : tok.kind = "wiki" \/ tok.kind = "markdown")
  IN [i \in 1..Len(links) |->
        [type |-> links[i].kind, target |-> [name |-> links[i].text, md |-> links[i].md],
         displayText |-> links[i].display]]

\* ObsidianParser.updateLinks(content, oldPath, newPath): a link is rewritten
\* when its target is oldPath or oldPath.replace('.md', ''); a wiki link gets
\* newPath.replace('.md', ''), a markdown link gets newPath
UpdateLinks(content, oldPath, newPath) ==
  [l \in 1..Len(content) |->
     [i \in 1..Len(content[l]) |->
        LET tok == content[l][i]
            isOld == tok.text = oldPath.name /\ (tok.md = oldPath.md \/ ~tok.md)
        IN IF tok.kind = "wiki" /\ isOld
           THEN [tok EXCEPT !.text = newPath.name, !.md = FALSE]
           ELSE IF tok.kind = "markdown" /\ isOld
           THEN [tok EXCEPT !.text = newPath.name, !.md = newPath.md]
           ELSE tok]]

\* ObsidianParser.extractTags (inline tags; the notes carry no frontmatter)
ExtractTags(content) ==
  LET tags == SelectSeq(Tokens(content), LAMBDA tok : tok.kind = "tag")
  IN { tags[i].text : i \in 1..Len(tags) }

\* path.dirname of a note of the vault: the notes of the folder "sub", every
\* other note lying in the vault root
Dirname(file) ==
  IF file.name \in {"sub/a", "sub/x", "sub/todo"} THEN "sub" ELSE "."

\* path.join(fromDir, linkWithoutExt) for the folder "sub" and the link
\* targets the notes carry
PathJoin(fromDir, name) ==
  IF fromDir = "." THEN name
  ELSE CASE name = "a" -> "sub/a"
         [] name = "b" -> "sub/b"
         [] name = "c" -> "sub/c"
         [] name = "x" -> "sub/x"
         [] name = "todo" -> "sub/todo"
         [] OTHER -> "sub/sub"

\* LinkParser.resolveLink for a target without "/": strip ".md", join the
\* directory of the linking note unless that is the vault root, append ".md"
ResolveLink(link, fromFile) ==
  LET linkWithoutExt == [link EXCEPT !.md = FALSE]
      fromDir == Dirname(fromFile)
  IN IF fromDir = "."
     THEN [linkWithoutExt EXCEPT !.md = TRUE]
     ELSE [linkWithoutExt EXCEPT !.name = PathJoin(fromDir, linkWithoutExt.name),
                                 !.md = TRUE]

\* the documents written by callers
LinkTo(n) == << <<Wiki(n)>> >>
TextX == << <<Word("x")>> >>
TextAndLink(n) == << <<Word("y"), Word("x")>>, <<Word("x"), Tag("t")>>, <<Wiki(n)>> >>
EmptyContent == << >>

\* ------------------------------------------------------------------------
\* FileUtils over the disk and the content cache
\* ------------------------------------------------------------------------
FiveMB == 5 * 1024 * 1024

\* the caches index.ts constructs
FileCacheOptions == [maxSize |-> 50 * 1024 * 1024, maxItems |-> 100, ttl |-> 3600000]
SearchCacheOptions == [maxSize |-> 10 * 1024 * 1024, maxItems |-> 50, ttl |-> 1800000]

\* the clock advances in steps just over the shorter of the two ttls
WaitStep == SearchCacheOptions.ttl + 1

\* fs.access(absPath) succeeds
Exists(d, filePath) == d[EnsureMarkdownExtension(filePath).name].present

\* fs.readFile(absPath) succeeds: the file is there and can be read
Readable(d, bad, path) == d[path.name].present /\ path.name \notin bad

\* readFile(filePath): the cache after the call, whether it threw, and the
\* content returned; fromCache tells a cache hit from a disk read
ReadFile(d, bad, fc, filePath, t) ==
  LET normalizedPath == EnsureMarkdownExtension(filePath)
      got == CacheGet(fc, normalizedPath, t)
      cached == got.hit /\ got.value # EmptyContent
  IN IF cached
     THEN [cache |-> got.cache, threw |-> FALSE, content |-> got.value, fromCache |-> TRUE]
     ELSE IF ~Readable(d, bad, normalizedPath)
     THEN [cache |-> got.cache, threw |-> TRUE, content |-> EmptyContent, fromCache |-> FALSE]
     ELSE LET content == d[normalizedPath.name].content
          IN [cache |-> IF ContentLength(content) < FiveMB
                        THEN CacheSet(got.cache, normalizedPath, content,
                                      ContentLength(content), t)
                        ELSE got.cache,
              threw |-> FALSE, content |-> content, fromCache |-> FALSE]

\* writeFile(filePath, content): the disk and the cache after the call
WriteFileKeepsCache(d, fc, filePath, content) ==
  LET normalizedPath == EnsureMarkdownExtension(filePath)
  IN [disk |-> [d EXCEPT ![normalizedPath.name] = [present |-> TRUE, content |-> content]],
      cache |-> fc]

WriteFile(d, fc, filePath, content) ==
  LET normalizedPath == EnsureMarkdownExtension(filePath)
  IN [disk |-> [d EXCEPT ![normalizedPath.name] = [present |-> TRUE, content |-> content]],
      cache |-> CacheDelete(fc, normalizedPath)]

\* deleteFile(filePath): fs.unlink throws when the file is not there
DeleteFile(d, fc, filePath) ==
  LET normalizedPath == EnsureMarkdownExtension(filePath)
  IN IF ~d[normalizedPath.name].present
     THEN [disk |-> d, cache |-> fc, threw |-> TRUE]
     ELSE [disk |-> [d EXCEPT ![normalizedPath.name] =
                                 [present |-> FALSE, content |-> EmptyContent]],
           cache |-> CacheDelete(fc, normalizedPath), threw |-> FALSE]

\* renameFile(oldPath, newPath): fs.rename throws when the source is not
\* there and replaces an existing target
RenameFile(d, fc, oldPath, newPath) ==
  LET normalizedOldPath == EnsureMarkdownExtension(oldPath)
      normalizedNewPath == EnsureMarkdownExtension(newPath)
  IN IF ~d[normalizedOldPath.name].present
     THEN [disk |-> d, cache |-> fc, threw |-> TRUE]
     ELSE IF normalizedOldPath = normalizedNewPath
     THEN [disk |-> d, cache |-> CacheDelete(fc, normalizedOldPath), threw |-> FALSE]
     ELSE [disk |-> [d EXCEPT ![normalizedNewPath.name] = d[normalizedOldPath.name],
                              ![normalizedOldPath.name] =
                                 [present |-> FALSE, content |-> EmptyContent]],
           cache |-> CacheDelete(fc, normalizedOldPath), threw |-> FALSE]

\* the file names a vault can hold, in the order of files.sort(): by UTF-16
\* code unit, capitals first
SortedNames ==
  <<"Note1">> \o Names \o <<"note1", "note2", "sub/a", "sub/x", "todo">>

\* listMarkdownFiles(): the notes on disk, sorted
ListMarkdownFiles(d) ==
  LET present == SelectSeq(SortedNames, LAMBDA n : n \in DOMAIN d /\ d[n].present)
  IN [i \in 1..Len(present) |-> MdPath(present[i])]

\* the "Update links in other files" loop of obsidian_rename_file; a readFile
\* that throws ends the handler there (st.threw), the files rewritten so far
\* staying rewritten
RECURSIVE UpdateLoop(_, _, _, _, _, _, _)
UpdateLoop(files, bad, oldFilePath, oldPath, newPath, st, t) ==
  IF files = << >> THEN st
  ELSE LET file == Head(files) IN
       IF file = oldFilePath
       THEN UpdateLoop(Tail(files), bad, oldFilePath, oldPath, newPath, st, t)
       ELSE LET Rewritten(r) ==
                  IF r.threw THEN [st EXCEPT !.cache = r.cache, !.threw = TRUE]
                  ELSE LET updatedContent == UpdateLinks(r.content, oldPath, newPath)
                       IN IF r.content # updatedContent
                          THEN UpdateLoop(Tail(files), bad, oldFilePath, oldPath, newPath,
                                 [st EXCEPT
                                    !.disk = WriteFile(st.disk, r.cache, file,
                                                       updatedContent).disk,
                                    !.cache = WriteFile(st.disk, r.cache, file,
                                                        updatedContent).cache,
                                    !.updatedFiles = Append(@, file)], t)
                          ELSE UpdateLoop(Tail(files), bad, oldFilePath, oldPath, newPath,
                                 [st EXCEPT !.cache = r.cache], t)
            IN Rewritten(ReadFile(st.disk, bad, st.cache, file, t))

\* the handler of obsidian_rename_file with updateLinks: the disk and the
\* content cache after the call, whether it reported success, and the files
\* it rewrote
RenameTool(d, bad, fc, oldPath, newPath, updateLinks, t) ==
  LET oldFilePath == EnsureMarkdownExtension(oldPath)
      newFilePath == EnsureMarkdownExtension(newPath)
      st0 == [disk |-> d, cache |-> fc, threw |-> FALSE, updatedFiles |-> << >>]
      Renamed(st) ==
        IF st.threw
        THEN [disk |-> st.disk, cache |-> st.cache, success |-> FALSE,
              updatedLinks |-> st.updatedFiles]
        ELSE [disk |-> RenameFile(st.disk, st.cache, oldFilePath, newFilePath).disk,
              cache |-> RenameFile(st.disk, st.cache, oldFilePath, newFilePath).cache,
              success |-> TRUE, updatedLinks |-> st.updatedFiles]
  IN IF ~Exists(d, oldFilePath) \/ Exists(d, newFilePath)
     THEN [disk |-> d, cache |-> fc, success |-> FALSE, updatedLinks |-> << >>]
     ELSE Renamed(IF updateLinks
                  THEN UpdateLoop(ListMarkdownFiles(d), bad, oldFilePath, oldPath,
                                  newPath, st0, t)
                  ELSE st0)

\* ------------------------------------------------------------------------
\* LinkParser: linkCache and backlinkCache are Maps from a path to a Set of
\* paths; a Map is the sequence of its [key, value] entries and a Set the
\* sequence of its members, both in insertion order
\* ------------------------------------------------------------------------
MapGet(entries, key) == entries[IndexOfKey(entries, key)].value

MapSet(entries, key, value) ==
  IF MapHas(entries, key)
  THEN [entries EXCEPT ![IndexOfKey(entries, key)].value = value]
  ELSE Append(entries, [key |-> key, value |-> value])

Members(seq) == { seq[i] : i \in 1..Len(seq) }

\* Set.add
SetAdd(seq, x) == IF x \in Members(seq) THEN seq ELSE Append(seq, x)

\* the "Process links" loop of buildLinkGraph for one note: the outgoing Set
\* and the edges pushed
RECURSIVE ProcessLinks(_, _, _)
ProcessLinksWithSelf(links, file, acc) ==
  IF links = << >> THEN acc
  ELSE LET link == Head(links)
           targetPath == ResolveLink(link.target, file)
       IN IF link.type = "wiki" \/ link.type = "markdown"
          THEN ProcessLinks(Tail(links), file,
                 [outgoingLinks |-> SetAdd(acc.outgoingLinks, targetPath),
                  edges |-> Append(acc.edges,
                              [source |-> file, target |-> targetPath, type |-> link.type])])
          ELSE ProcessLinks(Tail(links), file, acc)

ProcessLinks(links, file, acc) ==
  IF links = << >> THEN acc
  ELSE LET link == Head(links)
           targetPath == ResolveLink(link.target, file)
       IN IF (link.type = "wiki" \/ link.type = "markdown") /\ targetPath # file
          THEN ProcessLinks(Tail(links), file,
                 [outgoingLinks |-> SetAdd(acc.outgoingLinks, targetPath),
                  edges |-> Append(acc.edges,
                              [source |-> file, target |-> targetPath, type |-> link.type])])
          ELSE ProcessLinks(Tail(links), file, acc)

\* first pass of buildLinkGraph over the listed files; a readFile that throws
\* ends the build there (st.threw), with linkCache as filled so far
RECURSIVE FirstPass(_, _, _, _, _)
FirstPass(files, d, bad, st, t) ==
  IF files = << >> THEN st
  ELSE LET file == Head(files)
           Parsed(r) ==
             IF r.threw
             THEN [st EXCEPT !.fileCache = r.cache, !.threw = TRUE, !.failed = file]
             ELSE LET p == ProcessLinks(ExtractAllLinks(r.content), file,
                                        [outgoingLinks |-> << >>, edges |-> << >>])
                      node == [path |-> file, links |-> Len(p.outgoingLinks),
                               backlinks |-> 0, tags |-> ExtractTags(r.content)]
                  IN FirstPass(Tail(files), d, bad,
                       [st EXCEPT !.fileCache = r.cache,
                                  !.linkCache = MapSet(@, file, p.outgoingLinks),
                                  !.nodes = Append(@, node),
                                  !.edges = @ \o p.edges],
                       t)
       IN Parsed(ReadFile(d, bad, st.fileCache, file, t))

\* second pass: backlinkCache.get(target).add(source) for every link
RECURSIVE AddBacklinks(_, _, _)
AddBacklinksFirstOnly(bc, source, targets) ==
  IF targets = << >> THEN bc
  ELSE LET target == Head(targets)
           sofar == IF MapHas(bc, target) THEN MapGet(bc, target) ELSE << >>
       IN MapSet(bc, target, SetAdd(sofar, source))

AddBacklinks(bc, source, targets) ==
  IF targets = << >> THEN bc
  ELSE LET target == Head(targets)
           sofar == IF MapHas(bc, target) THEN MapGet(bc, target) ELSE << >>
       IN AddBacklinks(MapSet(bc, target, SetAdd(sofar, source)), source, Tail(targets))

RECURSIVE SecondPass(_, _)
SecondPass(lc, bc) ==
  IF lc = << >> THEN bc
  ELSE SecondPass(Tail(lc), AddBacklinks(bc, Head(lc).key, Head(lc).value))

\* "Update backlink counts"
WithBacklinkCounts(nodes, bc) ==
  [i \in 1..Len(nodes) |->
     IF MapHas(bc, nodes[i].path)
     THEN [nodes[i] EXCEPT !.backlinks = Len(MapGet(bc, nodes[i].path))]
     ELSE nodes[i]]

\* Array.prototype.sort by descending links + backlinks (stable)
RECURSIVE InsertByDegree(_, _)
InsertByDegree(sorted, node) ==
  IF sorted = << >> THEN <<node>>
  ELSE IF Head(sorted).links + Head(sorted).backlinks >= node.links + node.backlinks
       THEN <<Head(sorted)>> \o InsertByDegree(Tail(sorted), node)
       ELSE <<node>> \o sorted

RECURSIVE SortByDegree(_)
SortByDegree(nodes) ==
  IF nodes = << >> THEN << >>
  ELSE InsertByDegree(SortByDegree(SubSeq(nodes, 1, Len(nodes) - 1)), nodes[Len(nodes)])

PathsOf(nodes) == [i \in 1..Len(nodes) |-> nodes[i].path]

\* buildLinkGraph(): the content cache and the two Maps after the call,
\* whether it threw, and the GraphData it returned
BuildLinkGraph(d, bad, fc, t) ==
  LET st0 == [fileCache |-> fc, linkCache |-> << >>, nodes |-> << >>,
              edges |-> << >>, threw |-> FALSE, failed |-> MdPath("a")]
      GraphData(st) ==
        IF st.threw
        THEN [fileCache |-> st.fileCache, linkCache |-> st.linkCache,
              backlinkCache |-> << >>, threw |-> TRUE, failed |-> st.failed,
              nodes |-> << >>, edges |-> << >>, orphaned |-> << >>, hubs |-> << >>]
        ELSE LET bc == SecondPass(st.linkCache, << >>)
                 nodes == WithBacklinkCounts(st.nodes, bc)
                 hubs == SortByDegree(nodes)
             IN [fileCache |-> st.fileCache, linkCache |-> st.linkCache,
                 backlinkCache |-> bc, threw |-> FALSE, failed |-> st.failed,
                 nodes |-> nodes, edges |-> st.edges,
                 orphaned |-> PathsOf(SelectSeq(nodes,
                                LAMBDA n : n.links = 0 /\ n.backlinks = 0)),
                 hubs |-> PathsOf(SubSeq(hubs, 1, IF Len(hubs) < 10 THEN Len(hubs) ELSE 10))]
  IN GraphData(FirstPass(ListMarkdownFiles(d), d, bad, st0, t))

\* the engine's caches as one value: fileCache, linkCache, backlinkCache
Engine(fc, lc, bc) == [fileCache |-> fc, linkCache |-> lc, backlinkCache |-> bc]

AfterBuild(g) == Engine(g.fileCache, g.linkCache, g.backlinkCache)

\* LinkParser.getForwardLinks(notePath)
LinkGetForwardLinks(d, bad, e, notePath, t) ==
  IF Len(e.linkCache) = 0
  THEN LET Built(g) ==
             [engine |-> AfterBuild(g), threw |-> g.threw, built |-> TRUE,
              links |-> IF ~g.threw /\ MapHas(g.linkCache, notePath)
                        THEN MapGet(g.linkCache, notePath) ELSE << >>]
       IN Built(BuildLinkGraph(d, bad, e.fileCache, t))
  ELSE [engine |-> e, threw |-> FALSE, built |-> FALSE,
        links |-> IF MapHas(e.linkCache, notePath)
                  THEN MapGet(e.linkCache, notePath) ELSE << >>]

\* LinkParser.getBacklinks(notePath)
LinkGetBacklinks(d, bad, e, notePath, t) ==
  IF Len(e.backlinkCache) = 0
  THEN LET Built(g) ==
             [engine |-> AfterBuild(g), threw |-> g.threw, built |-> TRUE,
              links |-> IF ~g.threw /\ MapHas(g.backlinkCache, notePath)
                        THEN MapGet(g.backlinkCache, notePath) ELSE << >>]
       IN Built(BuildLinkGraph(d, bad, e.fileCache, t))
  ELSE [engine |-> e, threw |-> FALSE, built |-> FALSE,
        links |-> IF MapHas(e.backlinkCache, notePath)
                  THEN MapGet(e.backlinkCache, notePath) ELSE << >>]

\* ------------------------------------------------------------------------
\* GraphUtils: its own linkCache, a Map from a path to the links array
\* ------------------------------------------------------------------------
\* getLinksFromFile(path)
GetLinksFromFile(d, bad, e, glc, path, t) ==
  LET normalizedPath == EnsureMarkdownExtension(path)
  IN IF MapHas(glc, normalizedPath)
     THEN [engine |-> e, graphCache |-> glc, threw |-> FALSE,
           links |-> MapGet(glc, normalizedPath)]
     ELSE LET Got(r) ==
                IF r.threw
                THEN [engine |-> r.engine, graphCache |-> glc, threw |-> TRUE,
                      links |-> << >>]
                ELSE [engine |-> r.engine,
                      graphCache |-> MapSet(glc, normalizedPath, r.links),
                      threw |-> FALSE, links |-> r.links]
          IN Got(LinkGetForwardLinks(d, bad, e, normalizedPath, t))

GraphError(file, operation) == [path |-> file, operation |-> operation]

\* the loop of GraphUtils.getBacklinks over the listed files
RECURSIVE BacklinksLoop(_, _, _, _, _, _)
BacklinksLoop(files, d, bad, normalizedPath, acc, t) ==
  IF files = << >> THEN acc
  ELSE LET file == Head(files) IN
       IF file = normalizedPath
       THEN BacklinksLoop(Tail(files), d, bad, normalizedPath, acc, t)
       ELSE LET Scanned(r) ==
                  LET links == r.links
                      hit == \E i \in 1..Len(links) :
                               EnsureMarkdownExtension(links[i]) = normalizedPath
                  IN BacklinksLoop(Tail(files), d, bad, normalizedPath,
                       [engine |-> r.engine, graphCache |-> r.graphCache,
                        data |-> IF ~r.threw /\ hit THEN Append(acc.data, file)
                                 ELSE acc.data,
                        errors |-> IF r.threw
                                   THEN Append(acc.errors, GraphError(file, "getBacklinks"))
                                   ELSE acc.errors,
                        processedCount |-> acc.processedCount + 1],
                       t)
            IN Scanned(GetLinksFromFile(d, bad, acc.engine, acc.graphCache, file, t))

Metadata(total, success, errs) ==
  [totalProcessed |-> total, successCount |-> success, errorCount |-> errs]

\* GraphUtils.getBacklinks(path)
GraphGetBacklinks(d, bad, e, glc, path, t) ==
  LET Response(acc) ==
        [engine |-> acc.engine, graphCache |-> acc.graphCache,
         data |-> acc.data, errors |-> acc.errors,
         metadata |-> Metadata(acc.processedCount,
                               acc.processedCount - Len(acc.errors), Len(acc.errors))]
  IN Response(BacklinksLoop(ListMarkdownFiles(d), d, bad, EnsureMarkdownExtension(path),
                [engine |-> e, graphCache |-> glc, data |-> << >>,
                 errors |-> << >>, processedCount |-> 0], t))

\* GraphUtils.getForwardLinks(path)
GraphGetForwardLinks(d, bad, e, glc, path, t) ==
  LET Response(r) ==
        IF ~r.threw
        THEN [engine |-> r.engine, graphCache |-> r.graphCache,
              data |-> r.links, errors |-> << >>, metadata |-> Metadata(1, 1, 0)]
        ELSE [engine |-> r.engine, graphCache |-> r.graphCache,
              data |-> << >>, errors |-> <<GraphError(path, "getForwardLinks")>>,
              metadata |-> Metadata(1, 0, 1)]
  IN Response(GetLinksFromFile(d, bad, e, glc, path, t))

\* the "for (const link of linksResponse.data)" loop of
\* GraphUtils.findShortestPath: found when a link is the target, else the
\* queue and the visited Set after the loop
RECURSIVE ScanLinks(_, _, _, _)
ScanLinks(links, path, target, acc) ==
  IF links = << >> THEN acc
  ELSE LET normalizedLink == EnsureMarkdownExtension(Head(links))
       IN IF normalizedLink = target
          THEN [acc EXCEPT !.found = TRUE, !.data = Append(path, normalizedLink)]
          ELSE IF normalizedLink \notin acc.visited
          THEN ScanLinks(Tail(links), path, target,
                 [acc EXCEPT !.visited = @ \cup {normalizedLink},
                             !.queue = Append(@, Append(path, normalizedLink))])
          ELSE ScanLinks(Tail(links), path, target, acc)

\* the "while (queue.length > 0)" loop of GraphUtils.findShortestPath
RECURSIVE ShortestPathLoop(_, _, _, _, _, _, _)
ShortestPathLoop(d, bad, target, queue, visited, st, t) ==
  IF queue = << >>
  THEN [engine |-> st.engine, graphCache |-> st.graphCache, data |-> << >>,
        errors |-> st.errors,
        metadata |-> Metadata(st.processedCount, st.processedCount - Len(st.errors),
                              Len(st.errors))]
  ELSE LET path == Head(queue)
           current == path[Len(path)]
           processedCount == st.processedCount + 1
           Expanded(r) ==
             LET errors == st.errors \o r.errors
                 Scanned(sc) ==
                   IF sc.found
                   THEN [engine |-> r.engine, graphCache |-> r.graphCache,
                         data |-> sc.data, errors |-> errors,
                         metadata |-> Metadata(processedCount,
                                               processedCount - Len(errors), Len(errors))]
                   ELSE ShortestPathLoop(d, bad, target, sc.queue, sc.visited,
                          [engine |-> r.engine, graphCache |-> r.graphCache,
                           errors |-> errors, processedCount |-> processedCount], t)
             IN Scanned(ScanLinks(r.data, path, target,
                          [found |-> FALSE, data |-> << >>, queue |-> Tail(queue),
                           visited |-> visited]))
       IN Expanded(GraphGetForwardLinks(d, bad, st.engine, st.graphCache, current, t))

\* GraphUtils.findShortestPath(sourcePath, targetPath)
GraphFindShortestPath(d, bad, e, glc, sourcePath, targetPath, t) ==
  LET source == EnsureMarkdownExtension(sourcePath)
      target == EnsureMarkdownExtension(targetPath)
  IN IF source = target
     THEN [engine |-> e, graphCache |-> glc, data |-> <<source>>, errors |-> << >>,
           metadata |-> Metadata(0, 1, 0)]
     ELSE ShortestPathLoop(d, bad, target, << <<source>> >>, {source},
            [engine |-> e, graphCache |-> glc, errors |-> << >>, processedCount |-> 0], t)

\* the links of a node pushed on the queue of LinkParser.findShortestPath
RECURSIVE PushLinks(_, _, _, _)
PushLinks(links, path, visited, queue) ==
  IF links = << >> THEN queue
  ELSE PushLinks(Tail(links), path, visited,
         IF Head(links) \notin visited
         THEN Append(queue, [node |-> Head(links), path |-> Append(path, Head(links))])
         ELSE queue)

\* the BFS loop of LinkParser.findShortestPath; isNull tells the null it
\* returns when the queue runs empty from a path
RECURSIVE LinkShortestLoop(_, _, _, _)
LinkShortestLoop(lc, to, queue, visited) ==
  IF queue = << >> THEN [isNull |-> TRUE, path |-> << >>]
  ELSE LET node == Head(queue).node
           path == Head(queue).path
       IN IF node = to THEN [isNull |-> FALSE, path |-> path]
          ELSE IF node \in visited THEN LinkShortestLoop(lc, to, Tail(queue), visited)
          ELSE LinkShortestLoop(lc, to,
                 PushLinks(IF MapHas(lc, node) THEN MapGet(lc, node) ELSE << >>,
                           path, visited \cup {node}, Tail(queue)),
                 visited \cup {node})

\* LinkParser.findShortestPath(from, to)
LinkFindShortestPath(d, bad, e, from, to, t) ==
  LET start == << [node |-> from, path |-> <<from>>] >>
      Found(engine, threw, built) ==
        LET Answer(r) ==
              [engine |-> engine, threw |-> threw, built |-> built,
               isNull |-> r.isNull, path |-> r.path]
        IN IF threw THEN Answer([isNull |-> FALSE, path |-> << >>])
           ELSE Answer(LinkShortestLoop(engine.linkCache, to, start, {}))
  IN IF Len(e.linkCache) = 0
     THEN LET Built(g) == Found(AfterBuild(g), g.threw, TRUE)
          IN Built(BuildLinkGraph(d, bad, e.fileCache, t))
     ELSE Found(e, FALSE, FALSE)

\* the forEach of getNoteConnections that queues the connected notes
RECURSIVE PushConnected(_, _, _, _)
PushConnected(links, visited, depth, queue) ==
  IF links = << >> THEN queue
  ELSE PushConnected(Tail(links), visited, depth,
         IF Head(links) \notin visited
         THEN Append(queue, [path |-> Head(links), depth |-> depth])
         ELSE queue)

\* the "while (queue.length > 0)" loop of GraphUtils.getNoteConnections
RECURSIVE ConnectionsLoop(_, _, _, _, _, _, _)
ConnectionsLoop(d, bad, depth, queue, visited, st, t) ==
  IF queue = << >> THEN st
  ELSE LET currentPath == Head(queue).path
           currentDepth == Head(queue).depth
       IN IF currentPath \in visited \/ currentDepth > depth
          THEN ConnectionsLoop(d, bad, depth, Tail(queue), visited, st, t)
          ELSE LET Backward(back) ==
                     LET Forward(fwd) ==
                           ConnectionsLoop(d, bad, depth,
                             IF currentDepth < depth
                             THEN PushConnected(back.data \o fwd.data,
                                                visited \cup {currentPath},
                                                currentDepth + 1, Tail(queue))
                             ELSE Tail(queue),
                             visited \cup {currentPath},
                             [engine |-> fwd.engine, graphCache |-> fwd.graphCache,
                              connections |->
                                MapSet(st.connections, currentPath,
                                       [path |-> currentPath, backlinks |-> back.data,
                                        forwardLinks |-> fwd.data,
                                        depth |-> currentDepth]),
                              errors |-> st.errors \o back.errors \o fwd.errors,
                              processedCount |-> st.processedCount + 1],
                             t)
                     IN Forward(GraphGetForwardLinks(d, bad, back.engine, back.graphCache,
                                                     currentPath, t))
               IN Backward(GraphGetBacklinks(d, bad, st.engine, st.graphCache,
                                             currentPath, t))

\* GraphUtils.getNoteConnections(path, depth)
GetNoteConnections(d, bad, e, glc, path, depth, t) ==
  LET Response(st) ==
        [engine |-> st.engine, graphCache |-> st.graphCache, data |-> st.connections,
         errors |-> st.errors,
         metadata |-> Metadata(st.processedCount, Len(st.connections), Len(st.errors))]
  IN Response(ConnectionsLoop(d, bad, depth, << [path |-> path, depth |-> 0] >>, {},
                [engine |-> e, graphCache |-> glc, connections |-> << >>,
                 errors |-> << >>, processedCount |-> 0], t))

\* the loop of GraphUtils.findOrphanedNotes over the listed files
RECURSIVE OrphansLoop(_, _, _, _, _)
OrphansLoop(files, d, bad, st, t) ==
  IF files = << >> THEN st
  ELSE LET file == Head(files)
           Backward(back) ==
             LET Forward(fwd) ==
                   LET After(orphaned) ==
                         OrphansLoop(Tail(files), d, bad,
                           [engine |-> fwd.engine, graphCache |-> fwd.graphCache,
                            orphaned |-> orphaned,
                            errors |-> st.errors \o back.errors \o fwd.errors,
                            processedCount |-> st.processedCount + 1],
                           t)
                   IN IF Len(back.data) = 0 /\ Len(fwd.data) = 0
                      THEN After(Append(st.orphaned, file))
                      ELSE After(st.orphaned)
             IN Forward(GraphGetForwardLinks(d, bad, back.engine, back.graphCache, file, t))
       IN Backward(GraphGetBacklinks(d, bad, st.engine, st.graphCache, file, t))

\* GraphUtils.findOrphanedNotes()
FindOrphanedNotes(d, bad, e, glc, t) ==
  LET Response(st) ==
        [engine |-> st.engine, graphCache |-> st.graphCache, data |-> st.orphaned,
         errors |-> st.errors,
         metadata |-> Metadata(st.processedCount, st.processedCount - Len(st.errors),
                               Len(st.errors))]
  IN Response(OrphansLoop(ListMarkdownFiles(d), d, bad,
                [engine |-> e, graphCache |-> glc, orphaned |-> << >>,
                 errors |-> << >>, processedCount |-> 0], t))

\* ------------------------------------------------------------------------
\* SearchUtils.searchText with the default options
\* ------------------------------------------------------------------------
SearchLimit == 50

\* the character offset of token i of a line
RECURSIVE OffsetOf(_, _)
OffsetOf(line, i) ==
  IF i <= 1 THEN 0 ELSE OffsetOf(line, i - 1) + TokenLength(line[i - 1])

\* searchRegex.test(line) for a regex with the g flag: the search starts at
\* lastIndex; a match moves lastIndex behind it, a failure resets it to 0
RegexTest(line, query, lastIndex) ==
  LET at == { i \in 1..Len(line) :
                /\ line[i].kind = "word" /\ line[i].text = query
                /\ OffsetOf(line, i) >= lastIndex }
  IN IF at = {}
     THEN [found |-> FALSE, lastIndex |-> 0]
     ELSE LET i == CHOOSE j \in at : \A k \in at : j <= k
          IN [found |-> TRUE, lastIndex |-> OffsetOf(line, i) + 1]

\* content.split('\n'): the empty document is one empty line
SplitLines(content) == IF content = << >> THEN << << >> >> ELSE content

\* getContext(lines, index): up to two lines before and after
GetContext(lines, index) ==
  SubSeq(lines, IF index - 2 < 1 THEN 1 ELSE index - 2,
                IF index + 2 > Len(lines) THEN Len(lines) ELSE index + 2)

\* lines.forEach of searchText
RECURSIVE MatchLines(_, _, _, _, _)
MatchLines(lines, index, query, lastIndex, matches) ==
  IF index > Len(lines) THEN [matches |-> matches, lastIndex |-> lastIndex]
  ELSE LET r == RegexTest(lines[index], query, lastIndex)
       IN MatchLines(lines, index + 1, query, r.lastIndex,
            IF r.found
            THEN Append(matches, [line |-> index, text |-> lines[index],
                                  context |-> GetContext(lines, index)])
            ELSE matches)

\* the scan of searchText over the listed files (no note of the model is
\* over the large-file threshold)
RECURSIVE SearchLoop(_, _, _, _, _, _)
SearchLoop(files, d, bad, query, acc, t) ==
  IF files = << >> \/ Len(acc.results) >= SearchLimit THEN acc
  ELSE LET file == Head(files)
           Searched(r) ==
             IF r.threw
             THEN SearchLoop(Tail(files), d, bad, query,
                    [acc EXCEPT !.fileCache = r.cache,
                                !.errors = Append(@, GraphError(file, "searchText")),
                                !.processedCount = @ + 1], t)
             ELSE LET m == MatchLines(SplitLines(r.content), 1, query, acc.lastIndex, << >>)
                  IN SearchLoop(Tail(files), d, bad, query,
                       [acc EXCEPT !.fileCache = r.cache,
                                   !.lastIndex = m.lastIndex,
                                   !.results = IF Len(m.matches) > 0
                                               THEN Append(@, [path |-> file,
                                                               matches |-> m.matches])
                                               ELSE @,
                                   !.processedCount = @ + 1], t)
       IN Searched(ReadFile(d, bad, acc.fileCache, file, t))

\* Buffer.byteLength(JSON.stringify(response)): grows with every result,
\* match and error reported
RECURSIVE MatchCount(_)
MatchCount(results) ==
  IF results = << >> THEN 0
  ELSE Len(Head(results).matches) + MatchCount(Tail(results))

ResponseBytes(response) ==
  1 + Len(response.results) + MatchCount(response.results) + Len(response.errors)

\* searchText(query): the two caches after the call and the response
SearchText(d, bad, fc, sc, query, t) ==
  LET cacheKey == [query |-> query]
      got == CacheGet(sc, cacheKey, t)
  IN IF got.hit
     THEN [fileCache |-> fc, searchCache |-> got.cache, response |-> got.value,
           fromCache |-> TRUE]
     ELSE LET Scanned(acc) ==
                LET response == [results |-> acc.results, errors |-> acc.errors,
                                 metadata |-> Metadata(acc.processedCount,
                                                acc.processedCount - Len(acc.errors),
                                                Len(acc.errors))]
                IN [fileCache |-> acc.fileCache,
                    searchCache |-> CacheSet(got.cache, cacheKey, response,
                                             ResponseBytes(response), t),
                    response |-> response, fromCache |-> FALSE]
          IN Scanned(SearchLoop(ListMarkdownFiles(d), d, bad, query,
                       [fileCache |-> fc, lastIndex |-> 0, results |-> << >>,
                        errors |-> << >>, processedCount |-> 0], t))

\* ------------------------------------------------------------------------
\* PerformanceHelpers.batchProcess(items, processor, batchSize).  The items
\* are numbered 1 .. n; the processor of an item resolves with a value or
\* throws, which the caller's environment decides (failing).  scan holds the
\* call under way: the loop index i, and for every item the promise made for
\* it by batch.map: not made yet, pending, or fulfilled with its entry.
\* ------------------------------------------------------------------------
\* getVaultStatistics passes 10 as batchSize; the README promises at most 20
StatisticsBatchSize == 10
ReadmeConcurrentMax == 20

NoEntry == [item |-> 0, isError |-> FALSE, error |-> "", result |-> 0]

NoPromise == [state |-> "none", started |-> 0, entry |-> NoEntry]

NoScan ==
  [caller |-> "none", items |-> << >>, failing |-> {}, batchSize |-> 1, i |-> 0,
   phase |-> "idle", promises |-> << >>, results |-> << >>]

\* what processor(item) does: the value it resolves with, or the message of
\* the error it throws
Processor(item, failing) ==
  IF item \in failing
  THEN [threw |-> TRUE, value |-> 0, message |-> "read failed"]
  ELSE [threw |-> FALSE, value |-> item + 100, message |-> ""]

\* the async function batch.map runs for an item: { result, item } or, from
\* the catch, { error, item }
BatchPromise(item, failing) ==
  LET Caught(p) ==
        IF p.threw
        THEN [item |-> item, isError |-> TRUE, error |-> p.message, result |-> 0]
        ELSE [item |-> item, isError |-> FALSE, error |-> "", result |-> p.value]
  IN Caught(Processor(item, failing))

\* items.slice(i, i + batchSize), as the positions of the items sliced
BatchPositionsAll(items, i, batchSize) == { k \in 1..Len(items) : k > i }

BatchPositions(items, i, batchSize) ==
  { k \in 1..Len(items) : k > i /\ k <= i + batchSize }

\* await Promise.all(batchPromises): the entries of the batch in the order of
\* its items
BatchResultsOkOnly(promises, batch) ==
  SelectSeq([j \in 1..Cardinality(batch) |->
               promises[(CHOOSE k \in batch : \A m \in batch : k <= m) + j - 1].entry],
            LAMBDA e : ~e.isError)

BatchResults(promises, batch) ==
  [j \in 1..Cardinality(batch) |->
     promises[(CHOOSE k \in batch : \A m \in batch : k <= m) + j - 1].entry]

\* the processor invocations in flight
InFlight(sc) == { k \in 1..Len(sc.promises) : sc.promises[k].state = "pending" }

\* ------------------------------------------------------------------------
\* VaultUtils: string similarity.  A string is the sequence of its
\* characters.  A similarity is the exact quotient that the code's
\* floating-point expression rounds, kept in lowest terms: the division of
\* two lengths of at most 1000 is rounded once, so two quotients are equal,
\* or ordered, as doubles exactly when they are as fractions.
\* ------------------------------------------------------------------------
MAX_LEVENSHTEIN_LENGTH == 1000
MAX_LENGTH == 1000
SAMPLE_SIZE == 500
NUM_SAMPLES == 5

Min2(a, b) == IF a < b THEN a ELSE b
Max2(a, b) == IF a > b THEN a ELSE b

\* n times the character ch
Repeated(ch, n) == [k \in 1..n |-> ch]

RECURSIVE GCD(_, _)
GCD(a, b) == IF b = 0 THEN a ELSE GCD(b, a % b)

\* n / d
Ratio(n, d) == [num |-> n \div GCD(n, d), den |-> d \div GCD(n, d)]

\* x + y and x * y
RatioSum(x, y) ==
  Ratio(x.num * (y.den \div GCD(x.den, y.den)) + y.num * (x.den \div GCD(x.den, y.den)),
        (x.den \div GCD(x.den, y.den)) * y.den)

RatioProduct(x, y) == Ratio(x.num * y.num, x.den * y.den)

\* x < y
RatioLess(x, y) == x.num * y.den < y.num * x.den

\* matrix[i][j] of levenshteinDistance, from row i - 1 (prev) and the cells
\* of row i filled so far (row); column j of a row is its element j + 1
MatrixCell(prev, row, ch, str1, j) ==
  IF ch = str1[j] THEN prev[j]
  ELSE Min2(prev[j] + 1, Min2(row[j] + 1, prev[j + 1] + 1))

\* the inner loop of levenshteinDistance for j = lo .. hi: the columns are
\* filled from left to right, the range being halved so that the evaluation
\* of a row of a thousand columns stays shallow
RECURSIVE MatrixRow(_, _, _, _, _, _)
MatrixRow(prev, row, ch, str1, lo, hi) ==
  IF lo > hi THEN row
  ELSE IF lo = hi THEN Append(row, MatrixCell(prev, row, ch, str1, lo))
  ELSE LET mid == (lo + hi) \div 2
           After(left) ==
             IF Len(left) > mid THEN MatrixRow(prev, left, ch, str1, mid + 1, hi)
             ELSE left
       IN After(MatrixRow(prev, row, ch, str1, lo, mid))

\* the outer loop of levenshteinDistance for i = lo .. hi: the last row
\* filled, matrix[i][0] being i
RECURSIVE MatrixRows(_, _, _, _, _)
MatrixRows(prev, str1, str2, lo, hi) ==
  IF lo > hi THEN prev
  ELSE IF lo = hi THEN MatrixRow(prev, <<lo>>, str2[lo], str1, 1, Len(str1))
  ELSE LET mid == (lo + hi) \div 2
           After(upper) ==
             IF Len(upper) > 0 THEN MatrixRows(upper, str1, str2, mid + 1, hi)
             ELSE upper
       IN After(MatrixRows(prev, str1, str2, lo, mid))

\* levenshteinDistance(str1, str2)
LevenshteinDistance(str1, str2) ==
  IF Len(str1) > MAX_LENGTH \/ Len(str2) > MAX_LENGTH
  THEN IF str1 = str2 THEN 0 ELSE Max2(Len(str1), Len(str2))
  ELSE MatrixRows([j \in 1..(Len(str1) + 1) |-> j - 1], str1, str2, 1,
                  Len(str2))[Len(str1) + 1]

\* str.substring(start, end) for 0 <= start <= end
Substring(str, start, end) == SubSeq(str, Min2(start, Len(str)) + 1, Min2(end, Len(str)))

\* the offset of sample i: Math.floor((i / NUM_SAMPLES) * max(0, minLength -
\* SAMPLE_SIZE)); the rounding of i / 5 never carries the product across an
\* integer
SampleOffset(str1, str2, i) ==
  (i * Max2(0, Min2(Len(str1), Len(str2)) - SAMPLE_SIZE)) \div NUM_SAMPLES

\* the similarity of one pair of samples
SampleSimilarity(sample1, sample2) ==
  Ratio(Max2(Len(sample1), Len(sample2)) - LevenshteinDistance(sample1, sample2),
        Max2(Len(sample1), Len(sample2)))

\* the sampling loop of calculateSampledSimilarity from sample i on:
\* totalSimilarity
RECURSIVE SampleLoop(_, _, _, _)
SampleLoop(str1, str2, i, totalSimilarity) ==
  IF i >= NUM_SAMPLES THEN totalSimilarity
  ELSE LET After(sample1, sample2) ==
             IF sample1 # << >> /\ sample2 # << >>
             THEN SampleLoop(str1, str2, i + 1,
                             RatioSum(totalSimilarity, SampleSimilarity(sample1, sample2)))
             ELSE SampleLoop(str1, str2, i + 1, totalSimilarity)
       IN After(Substring(str1, SampleOffset(str1, str2, i),
                          SampleOffset(str1, str2, i) + SAMPLE_SIZE),
                Substring(str2, SampleOffset(str1, str2, i),
                          SampleOffset(str1, str2, i) + SAMPLE_SIZE))

\* calculateSampledSimilarity(str1, str2): lengthRatio * 0.3 +
\* (totalSimilarity / NUM_SAMPLES) * 0.7
CalculateSampledSimilarity(str1, str2) ==
  LET lengthRatio ==
        Ratio(Min2(Len(str1), Len(str2)), Max2(Len(str1), Len(str2)))
      Weighted(totalSimilarity) ==
        RatioSum(RatioProduct(lengthRatio, Ratio(3, 10)),
                 RatioProduct(RatioProduct(totalSimilarity, Ratio(1, NUM_SAMPLES)),
                              Ratio(7, 10)))
  IN IF str1 = str2 THEN Ratio(1, 1)
     ELSE IF RatioLess(lengthRatio, Ratio(1, 2)) THEN Ratio(0, 1)
     ELSE Weighted(SampleLoop(str1, str2, 0, Ratio(0, 1)))

\* calculateStringSimilarity(str1, str2)
CalculateStringSimilarityByFirst(str1, str2) ==
  IF Len(str1) = 0 THEN Ratio(1, 1)
  ELSE IF Len(str1) > MAX_LEVENSHTEIN_LENGTH THEN CalculateSampledSimilarity(str1, str2)
  ELSE Ratio(Max2(0, Len(str1) - LevenshteinDistance(str1, str2)), Len(str1))

CalculateStringSimilarity(str1, str2) ==
  LET longer == IF Len(str1) > Len(str2) THEN str1 ELSE str2
      shorter == IF Len(str1) > Len(str2) THEN str2 ELSE str1
  IN IF Len(longer) = 0 THEN Ratio(1, 1)
     ELSE IF Len(longer) > MAX_LEVENSHTEIN_LENGTH
     THEN CalculateSampledSimilarity(str1, str2)
     ELSE Ratio(Len(longer) - LevenshteinDistance(longer, shorter), Len(longer))

\* no call of calculateStringSimilarity made yet
NoSimilarity ==
  [str1 |-> << >>, str2 |-> << >>, called |-> FALSE, forward |-> Ratio(0, 1),
   backward |-> Ratio(0, 1), own |-> Ratio(0, 1)]

\* ------------------------------------------------------------------------
\* VaultUtils.findDuplicateNotes
\* ------------------------------------------------------------------------
SAFE_SIZE_LIMIT == 50 * 1024

\* the characters of a token and of a document, "\n" between its lines
TokenChars(tok) ==
  LET target == <<tok.text>> \o (IF tok.md THEN <<".", "m", "d">> ELSE << >>)
      shown == IF tok.display = "" THEN << >> ELSE <<tok.display>>
  IN IF tok.kind = "word" THEN <<tok.text>>
     ELSE IF tok.kind = "run" THEN Repeated(tok.text, tok.count)
     ELSE IF tok.kind = "tag" THEN <<"#", tok.text>>
     ELSE IF tok.kind = "wiki"
     THEN <<"[", "[">> \o target \o (IF shown = << >> THEN << >> ELSE <<"|">> \o shown)
          \o <<"]", "]">>
     ELSE <<"[">> \o shown \o <<"]", "(">> \o target \o <<")">>

RECURSIVE LineChars(_)
LineChars(line) ==
  IF line = << >> THEN << >> ELSE TokenChars(Head(line)) \o LineChars(Tail(line))

RECURSIVE Text(_)
Text(content) ==
  IF content = << >> THEN << >>
  ELSE IF Len(content) = 1 THEN LineChars(content[1])
  ELSE LineChars(Head(content)) \o <<"\n">> \o Text(Tail(content))

\* String.prototype.toLowerCase on ASCII text
UpperCase ==
  <<"A", "B", "C", "D", "E", "F", "G", "H", "I", "J", "K", "L", "M", "N", "O", "P", "Q",
    "R", "S", "T", "U", "V", "W", "X", "Y", "Z">>
LowerCase ==
  <<"a", "b", "c", "d", "e", "f", "g", "h", "i", "j", "k", "l", "m", "n", "o", "p", "q",
    "r", "s", "t", "u", "v", "w", "x", "y", "z">>
ToLowerCase(str) ==
  [k \in 1..Len(str) |->
     IF \E i \in 1..Len(UpperCase) : UpperCase[i] = str[k]
     THEN LowerCase[CHOOSE i \in 1..Len(UpperCase) : UpperCase[i] = str[k]]
     ELSE str[k]]

\* path.basename(file, '.md') of a note of the vault root: the characters of
\* its name
Basename(file) ==
  CASE file.name = "Note1" -> <<"N", "o", "t", "e", "1">>
    [] file.name = "note1" -> <<"n", "o", "t", "e", "1">>
    [] file.name = "note2" -> <<"n", "o", "t", "e", "2">>
    [] file.name = "todo" -> <<"t", "o", "d", "o">>
    [] OTHER -> <<file.name>>

\* (await getStats(file)).size: fs.stat succeeds for a listed file whether or
\* not the file can be read
FileSize(d, file) == ContentLength(d[file.name].content)

\* computeFileHash(filePath): the stream fails when the file cannot be read;
\* two digests are equal exactly when the bytes are
ComputeFileHash(d, bad, file) ==
  IF Readable(d, bad, file)
  THEN [threw |-> FALSE, hash |-> Text(d[file.name].content)]
  ELSE [threw |-> TRUE, hash |-> << >>]

\* the options of findDuplicateNotes as defaulted by line 304
DefaultOptions == [threshold |-> Ratio(4, 5), checkContent |-> TRUE, checkTitles |-> TRUE]

\* "Check title similarity": similarity and type after it
CheckTitles(file1, file2, options) ==
  LET title1 == ToLowerCase(Basename(file1))
      title2 == ToLowerCase(Basename(file2))
      Kept(titleSim) ==
        IF RatioLess(Ratio(0, 1), titleSim)
        THEN [similarity |-> titleSim, type |-> "title"]
        ELSE [similarity |-> Ratio(0, 1), type |-> "content"]
  IN IF ~options.checkTitles THEN [similarity |-> Ratio(0, 1), type |-> "content"]
     ELSE IF title1 = title2 THEN [similarity |-> Ratio(1, 1), type |-> "title"]
     ELSE Kept(CalculateStringSimilarity(title1, title2))

\* hash1 = computeFileHash(file1); hash2 = computeFileHash(file2);
\* if (hash1 === hash2) { similarity = 1; type = "content" }
HashCompare(d, bad, file1, file2, sofar) ==
  LET Both(hash1, hash2) ==
        IF hash1.threw \/ hash2.threw
        THEN [threw |-> TRUE, similarity |-> sofar.similarity, type |-> sofar.type]
        ELSE IF hash1.hash = hash2.hash
        THEN [threw |-> FALSE, similarity |-> Ratio(1, 1), type |-> "content"]
        ELSE [threw |-> FALSE, similarity |-> sofar.similarity, type |-> sofar.type]
  IN Both(ComputeFileHash(d, bad, file1), ComputeFileHash(d, bad, file2))

\* the outcome of one comparison: the content cache after it, similarity and
\* type, whether an error was pushed, and how the contents were compared:
\* "none" (not at all), "sizes" (over the limit and the sizes apart),
\* "hash" (over the limit), "string" (read and compared as strings),
\* "hash-after-read" (read and found over the limit), "hash-fallback" (a
\* read failed)
Compared(fc, sofar, method, error) ==
  [cache |-> fc, similarity |-> sofar.similarity, type |-> sofar.type,
   method |-> method, error |-> error]

\* the catch of the small-file branch: "If reading fails, try hash
\* comparison", a failing hash being skipped
HashFallback(d, bad, fc, file1, file2, sofar) ==
  Compared(fc, HashCompare(d, bad, file1, file2, sofar), "hash-fallback", FALSE)

\* the small-file branch, once both files are read
CompareStrings(d, bad, fc, file1, file2, content1, content2, sofar) ==
  LET Kept(contentSim) ==
        IF RatioLess(sofar.similarity, contentSim)
        THEN Compared(fc, [similarity |-> contentSim, type |-> "content"], "string", FALSE)
        ELSE Compared(fc, sofar, "string", FALSE)
      Hashed(h) ==
        IF h.threw THEN HashFallback(d, bad, fc, file1, file2, sofar)
        ELSE Compared(fc, h, "hash-after-read", FALSE)
  IN IF ContentLength(content1) > SAFE_SIZE_LIMIT \/ ContentLength(content2) > SAFE_SIZE_LIMIT
     THEN Hashed(HashCompare(d, bad, file1, file2, sofar))
     ELSE Kept(CalculateStringSimilarity(Text(content1), Text(content2)))

\* "Check content similarity with performance optimizations"
CheckContent(d, bad, fc, file1, file2, sofar, t) ==
  LET file1Size == FileSize(d, file1)
      file2Size == FileSize(d, file2)
      sizeDiff == Max2(file1Size, file2Size) - Min2(file1Size, file2Size)
      Hashed(h) == Compared(fc, h, "hash", h.threw)
      Second(r1, r2) ==
        IF r2.threw THEN HashFallback(d, bad, r2.cache, file1, file2, sofar)
        ELSE CompareStrings(d, bad, r2.cache, file1, file2, r1.content, r2.content, sofar)
      First(r1) ==
        IF r1.threw THEN HashFallback(d, bad, r1.cache, file1, file2, sofar)
        ELSE Second(r1, ReadFile(d, bad, r1.cache, file2, t))
  IN IF file1Size > SAFE_SIZE_LIMIT \/ file2Size > SAFE_SIZE_LIMIT
     THEN IF RatioLess(Ratio(2 * sizeDiff, file1Size + file2Size), Ratio(1, 10))
          THEN Hashed(HashCompare(d, bad, file1, file2, sofar))
          ELSE Compared(fc, sofar, "sizes", FALSE)
     ELSE First(ReadFile(d, bad, fc, file1, t))

\* the body of the loop over file2 up to "if (similarity >= threshold)"
ComparePair(d, bad, fc, file1, file2, options, t) ==
  LET Content(sofar) ==
        IF options.checkContent /\ RatioLess(sofar.similarity, options.threshold)
        THEN CheckContent(d, bad, fc, file1, file2, sofar, t)
        ELSE Compared(fc, sofar, "none", FALSE)
  IN Content(CheckTitles(file1, file2, options))

\* "if (similarity >= threshold)": file2 joins the group of file1 and is
\* marked processed
JoinGroupUnmarked(st, file2, c) ==
  [st EXCEPT !.group = Append(@, file2),
             !.lastSimilarity = c.similarity, !.lastType = c.type]

JoinGroup(st, file2, c) ==
  [st EXCEPT !.group = Append(@, file2), !.processed = @ \cup {file2},
             !.lastSimilarity = c.similarity, !.lastType = c.type]

\* the loop over the files after file1 = files[i], from files[j] on; pairs
\* records every comparison made
RECURSIVE GroupLoop(_, _, _, _, _, _, _, _)
GroupLoop(files, d, bad, i, j, options, st, t) ==
  IF j > Len(files) THEN st
  ELSE IF files[j] \in st.processed
  THEN GroupLoop(files, d, bad, i, j + 1, options, st, t)
  ELSE LET Seen(c) ==
             [st EXCEPT
                !.cache = c.cache,
                !.errors = IF c.error
                           THEN Append(@, GraphError(files[j],
                                          "findDuplicateNotes.contentComparison"))
                           ELSE @,
                !.pairs = Append(@, [file1 |-> files[i], file2 |-> files[j],
                                     method |-> c.method, similarity |-> c.similarity,
                                     type |-> c.type])]
           After(c) ==
             IF RatioLess(c.similarity, options.threshold)
             THEN GroupLoop(files, d, bad, i, j + 1, options, Seen(c), t)
             ELSE GroupLoop(files, d, bad, i, j + 1, options,
                            JoinGroup(Seen(c), files[j], c), t)
       IN After(ComparePair(d, bad, st.cache, files[i], files[j], options, t))

\* the loop over file1 = files[i]
RECURSIVE AnchorLoop(_, _, _, _, _, _, _)
AnchorLoop(files, d, bad, i, options, st, t) ==
  IF i > Len(files) THEN st
  ELSE IF files[i] \in st.processed THEN AnchorLoop(files, d, bad, i + 1, options, st, t)
  ELSE LET After(g) ==
             IF Len(g.group) > 1
             THEN AnchorLoop(files, d, bad, i + 1, options,
                    [cache |-> g.cache, processed |-> g.processed \cup {files[i]},
                     duplicates |-> Append(st.duplicates,
                                           [paths |-> g.group,
                                            similarity |-> g.lastSimilarity,
                                            type |-> g.lastType]),
                     errors |-> g.errors, processedCount |-> st.processedCount + 1,
                     pairs |-> g.pairs], t)
             ELSE AnchorLoop(files, d, bad, i + 1, options,
                    [cache |-> g.cache, processed |-> g.processed,
                     duplicates |-> st.duplicates,
                     errors |-> g.errors, processedCount |-> st.processedCount + 1,
                     pairs |-> g.pairs], t)
       IN After(GroupLoop(files, d, bad, i, i + 1, options,
                          [cache |-> st.cache, processed |-> st.processed,
                           group |-> <<files[i]>>, lastSimilarity |-> Ratio(0, 1),
                           lastType |-> "content", errors |-> st.errors,
                           pairs |-> st.pairs], t))

\* findDuplicateNotes(options): the response, the content cache after the
\* call and the comparisons made
FindDuplicateNotes(d, bad, fc, options, t) ==
  LET Response(st) ==
        [cache |-> st.cache, data |-> st.duplicates, errors |-> st.errors,
         metadata |-> Metadata(st.processedCount, st.processedCount - Len(st.errors),
                               Len(st.errors)),
         pairs |-> st.pairs]
  IN Response(AnchorLoop(ListMarkdownFiles(d), d, bad, 1, options,
                         [cache |-> fc, processed |-> {}, duplicates |-> << >>,
                          errors |-> << >>, processedCount |-> 0, pairs |-> << >>], t))

\* ------------------------------------------------------------------------
\* ObsidianParser.updateLinks on the characters of a text.  A string is the
\* sequence of its characters.
\* ------------------------------------------------------------------------
Chars(s, from, to) == [k \in 1..(to - from + 1) |-> s[from + k - 1]]

\* String.prototype.indexOf(ch, from), 1-based; 0 when there is none
IndexOfChar(s, ch, from) ==
  IF \E k \in from..Len(s) : s[k] = ch
  THEN CHOOSE k \in from..Len(s) : s[k] = ch /\ \A h \in from..(k - 1) : s[h] # ch
  ELSE 0

\* String.prototype.trim: the spaces at both ends go
Trim(s) ==
  IF \A k \in 1..Len(s) : s[k] = " " THEN << >>
  ELSE LET first == CHOOSE k \in 1..Len(s) : s[k] # " " /\ \A h \in 1..(k - 1) : s[h] = " "
           final == CHOOSE k \in 1..Len(s) : s[k] # " " /\ \A h \in (k + 1)..Len(s) : s[h] = " "
       IN Chars(s, first, final)

\* linkContent.split('|').map(trim): the first two parts.  The display is
\* only tested for truth, so undefined and "" are both the empty string here
SplitLink(linkContent) ==
  LET bar == IndexOfChar(linkContent, "|", 1)
      rest == Chars(linkContent, bar + 1, Len(linkContent))
      bar2 == IndexOfChar(rest, "|", 1)
  IN IF bar = 0 THEN [target |-> Trim(linkContent), display |-> << >>]
     ELSE [target |-> Trim(Chars(linkContent, 1, bar - 1)),
           display |-> Trim(IF bar2 = 0 THEN rest ELSE Chars(rest, 1, bar2 - 1))]

\* path.replace('.md', ''): the first occurrence of ".md" goes
ReplaceMd(path) ==
  LET At(k) == k + 2 <= Len(path) /\ path[k] = "." /\ path[k + 1] = "m" /\ path[k + 2] = "d"
  IN IF \E k \in 1..Len(path) : At(k)
     THEN LET k == CHOOSE k \in 1..Len(path) : At(k) /\ \A h \in 1..(k - 1) : ~At(h)
          IN Chars(path, 1, k - 1) \o Chars(path, k + 3, Len(path))
     ELSE path

\* target === oldPath || target === oldPath.replace('.md', '')
IsOldTarget(target, oldPath) == target = oldPath \/ target = ReplaceMd(oldPath)

\* the replacement of one wiki link
WikiReplacement(match, linkContent, oldPath, newPath) ==
  LET parts == SplitLink(linkContent)
      newTarget == ReplaceMd(newPath)
  IN IF IsOldTarget(parts.target, oldPath)
     THEN IF parts.display # << >>
          THEN <<"[", "[">> \o newTarget \o <<"|">> \o parts.display \o <<"]", "]">>
          ELSE <<"[", "[">> \o newTarget \o <<"]", "]">>
     ELSE match

\* updated.replace(/\[\[([^\]]+)\]\]/g, ...): at i a match is "[[", the
\* characters up to the first "]", at least one, and "]]"; the scan goes on
\* behind a match, one character on where there is none
RECURSIVE ReplaceWikiLinks(_, _, _, _)
ReplaceWikiLinks(s, i, oldPath, newPath) ==
  IF i > Len(s) THEN << >>
  ELSE LET close == IndexOfChar(s, "]", i + 2)
           matches == /\ i + 1 <= Len(s) /\ s[i] = "[" /\ s[i + 1] = "["
                      /\ close > i + 2
                      /\ close + 1 <= Len(s) /\ s[close + 1] = "]"
       IN IF matches
          THEN WikiReplacement(Chars(s, i, close + 1), Chars(s, i + 2, close - 1),
                               oldPath, newPath)
               \o ReplaceWikiLinks(s, close + 2, oldPath, newPath)
          ELSE <<s[i]>> \o ReplaceWikiLinks(s, i + 1, oldPath, newPath)

\* updated.replace(/\[([^\]]*)\]\(([^)]+)\)/g, ...): at i a match is "[", the
\* characters up to the first "]", "](", the characters up to the first ")",
\* at least one, and ")"
RECURSIVE ReplaceMarkdownLinks(_, _, _, _)
ReplaceMarkdownLinks(s, i, oldPath, newPath) ==
  IF i > Len(s) THEN << >>
  ELSE LET close == IndexOfChar(s, "]", i + 1)
           paren == IndexOfChar(s, ")", close + 2)
           matches == /\ s[i] = "[" /\ close > 0
                      /\ close + 1 <= Len(s) /\ s[close + 1] = "("
                      /\ paren > close + 2
       IN IF matches
          THEN (IF IsOldTarget(Chars(s, close + 2, paren - 1), oldPath)
                THEN <<"[">> \o Chars(s, i + 1, close - 1) \o <<"]", "(">> \o newPath
                     \o <<")">>
                ELSE Chars(s, i, paren))
               \o ReplaceMarkdownLinks(s, paren + 1, oldPath, newPath)
          ELSE <<s[i]>> \o ReplaceMarkdownLinks(s, i + 1, oldPath, newPath)

\* ObsidianParser.updateLinks(content, oldPath, newPath)
UpdateLinksText(content, oldPath, newPath) ==
  ReplaceMarkdownLinks(ReplaceWikiLinks(content, 1, oldPath, newPath), 1, oldPath,
                       newPath)

NoUpdate ==
  [content |-> << >>, oldPath |-> << >>, newPath |-> << >>, calls |-> 0,
   before |-> << >>, updated |-> << >>]

\* ------------------------------------------------------------------------
\* FileOperationPool.  An operation is its id and type.  queue holds the operations not yet started;
\* executing, the operations whose executeOperation waits for the file
\* system; settling, the operations whose executeOperation has returned and
\* whose finally callback has not run yet.  enqueued counts the operations
\* handed to the pool, settled holds every operation that ended with
\* "resolved" or "rejected".
\* ------------------------------------------------------------------------
DefaultMaxConcurrent == 10

NewPool(maxConcurrent) ==
  [maxConcurrent |-> maxConcurrent, queue |-> << >>, activeOperations |-> 0,
   executing |-> {}, settling |-> {}, settled |-> {}, enqueued |-> 0]

\* processQueue started with one operation too many
RECURSIVE ProcessQueueOneMore(_)
ProcessQueueOneMore(p) ==
  IF Len(p.queue) > 0 /\ p.activeOperations <= p.maxConcurrent
  THEN ProcessQueueOneMore([p EXCEPT !.queue = Tail(@),
                                     !.activeOperations = @ + 1,
                                     !.executing = @ \cup {Head(p.queue)}])
  ELSE p

\* processQueue(): the loop has no await, so it runs to its end at once; an
\* operation it starts runs up to its first await of the file system
RECURSIVE ProcessQueue(_)
ProcessQueue(p) ==
  IF Len(p.queue) > 0 /\ p.activeOperations < p.maxConcurrent
  THEN ProcessQueue([p EXCEPT !.queue = Tail(@),
                              !.activeOperations = @ + 1,
                              !.executing = @ \cup {Head(p.queue)}])
  ELSE p

\* enqueue(operation)
Enqueue(p, operation) == ProcessQueue([p EXCEPT !.queue = Append(@, operation)])

\* executeOperation's file system call ends: operation.resolve(result) or
\* operation.reject(error); the promise of executeOperation is fulfilled
ExecuteOperationEnds(p, operation, outcome) ==
  [p EXCEPT !.executing = @ \ {operation},
            !.settling = @ \cup {operation},
            !.settled = @ \cup {<<operation.id, outcome>>}]

\* .finally(() => { this.activeOperations--; this.processQueue(); })
Finally(p, operation) ==
  ProcessQueue([p EXCEPT !.settling = @ \ {operation},
                         !.activeOperations = @ - 1])

NoPool == NewPool(0)

\* ------------------------------------------------------------------------
\* Calls that overlap.  An async function runs until it awaits the file
\* system and goes on, in one piece, when the file system answers; an await
\* of a value that is already there does not let a file system answer in.
\* ------------------------------------------------------------------------
\* readFile(filePath) up to its await: the cache after this.cache.get and
\* whether the cached content is returned
ReadFileBegin(fc, filePath, t) ==
  LET Got(got) ==
        [cache |-> got.cache, hit |-> got.hit /\ got.value # EmptyContent,
         content |-> got.value]
  IN Got(CacheGet(fc, EnsureMarkdownExtension(filePath), t))

\* readFile(filePath) from the answer of fs.readFile: the cache after it
ReadFileEnd(fc, filePath, content, t) ==
  IF ContentLength(content) < FiveMB
  THEN CacheSet(fc, EnsureMarkdownExtension(filePath), content, ContentLength(content), t)
  ELSE fc

\* buildLinkGraph, first pass, for one file that has been read:
\* this.linkCache.set(file, outgoingLinks)
StoreLinks(e, file, content) ==
  [e EXCEPT !.linkCache =
     MapSet(@, file, ProcessLinks(ExtractAllLinks(content), file,
                                  [outgoingLinks |-> << >>, edges |-> << >>]).outgoingLinks)]

\* FileUtils calls under way.  calls.list holds every call started, in the
\* order of their start; pc tells where a call waits: a readFile that missed
\* the cache at "fsRead" until the file system has read the file, then at
\* "resume" until its continuation runs; a writeFile at "fsWrite" until the
\* file system has written the file, then at "resume"; "done" when it has
\* returned.  clock numbers the events; a call records the events at which
\* the disk was read or written (diskAt) and the cache set or cleared
\* (cacheAt), 0 while they have not happened.
NoCalls == [clock |-> 0, list |-> << >>]

NewCall(op, filePath, content) ==
  [op |-> op, path |-> filePath, content |-> content, pc |-> "start", missed |-> FALSE,
   threw |-> FALSE, diskAt |-> 0, cacheAt |-> 0]

\* getVaultStatistics: the processor of one file.  pc tells where it waits:
\* "stat" for fs.stat, "read" for fs.readFile of its file, "list" for the
\* glob of the buildLinkGraph it started, "build" for fs.readFile of
\* files[k] in that build; "done" with the links getForwardLinks returned,
\* "failed" when it threw.
NoProcessor ==
  [file |-> MdPath("a"), pc |-> "none", files |-> << >>, k |-> 0, built |-> FALSE,
   links |-> << >>]

\* getForwardLinks from the end of its buildLinkGraph, or without one:
\* this.linkCache.get(notePath), an empty list when there is none
ForwardLinksReturn(e, proc) ==
  [engine |-> e,
   proc |-> [proc EXCEPT !.pc = "done",
                         !.links = IF MapHas(e.linkCache, proc.file)
                                   THEN MapGet(e.linkCache, proc.file) ELSE << >>]]

\* the for loop of buildLinkGraph from files[k] on, up to a readFile that
\* has to wait; behind the last file the second pass fills backlinkCache
RECURSIVE BuildFrom(_, _, _)
BuildFrom(e, proc, t) ==
  IF proc.k > Len(proc.files)
  THEN ForwardLinksReturn(
         [e EXCEPT !.backlinkCache = SecondPass(e.linkCache, e.backlinkCache)], proc)
  ELSE LET file == proc.files[proc.k]
           Read(r) ==
             IF r.hit
             THEN BuildFrom(StoreLinks([e EXCEPT !.fileCache = r.cache], file, r.content),
                            [proc EXCEPT !.k = @ + 1], t)
             ELSE [engine |-> [e EXCEPT !.fileCache = r.cache],
                   proc |-> [proc EXCEPT !.pc = "build"]]
       IN Read(ReadFileBegin(e.fileCache, file, t))

\* getForwardLinks(file) up to its await: with an empty linkCache it calls
\* buildLinkGraph, which clears both Maps and awaits the listing
ForwardLinksBegin(e, proc) ==
  IF Len(e.linkCache) = 0
  THEN [engine |-> [e EXCEPT !.linkCache = << >>, !.backlinkCache = << >>],
        proc |-> [proc EXCEPT !.pc = "list", !.built = TRUE]]
  ELSE ForwardLinksReturn(e, proc)

\* the processor from the answer of fs.stat: readFile(file)
AfterStat(e, proc, t) ==
  LET Read(r) ==
        IF r.hit THEN ForwardLinksBegin([e EXCEPT !.fileCache = r.cache], proc)
        ELSE [engine |-> [e EXCEPT !.fileCache = r.cache],
              proc |-> [proc EXCEPT !.pc = "read"]]
  IN Read(ReadFileBegin(e.fileCache, proc.file, t))

\* the processor from the answer of fs.readFile for its file
AfterRead(e, proc, content, t) ==
  ForwardLinksBegin([e EXCEPT !.fileCache = ReadFileEnd(@, proc.file, content, t)], proc)

\* the build from the answer of the listing
AfterList(e, proc, files, t) == BuildFrom(e, [proc EXCEPT !.files = files, !.k = 1], t)

\* the build from the answer of fs.readFile for files[k]
AfterBuildRead(e, proc, content, t) ==
  LET file == proc.files[proc.k]
  IN BuildFrom(StoreLinks([e EXCEPT !.fileCache = ReadFileEnd(@, file, content, t)],
                          file, content),
               [proc EXCEPT !.k = @ + 1], t)

\* totalLinks += data.linkCount over the results
RECURSIVE TotalLinks(_)
TotalLinks(procs) ==
  IF procs = << >> THEN 0
  ELSE (IF Head(procs).pc = "done" THEN Len(Head(procs).links) ELSE 0)
       + TotalLinks(Tail(procs))

NoStatistics == [phase |-> "none", procs |-> << >>, totalLinks |-> 0]

\* ------------------------------------------------------------------------
\* The cache on its own: any caller, any sequence of calls
\* ------------------------------------------------------------------------
\* what a caller observes of a call: its arguments, what it returned and the
\* keys that were stored before the call and are not stored after it
Call(op, key, size, hit, value, before, after) ==
  [op |-> op, key |-> key, size |-> size, hit |-> hit, value |-> value,
   removed |-> KeysOf(before.entries) \ KeysOf(after.entries)]

NoCall ==
  [op |-> "none", key |-> "", size |-> 0, hit |-> FALSE, value |-> NoValue,
   removed |-> {}]

\* the vault as the server finds it at start-up
InitialDisk ==
  [n \in NameSet |->
     IF n = "a" THEN [present |-> TRUE, content |-> LinkTo("b")]
     ELSE IF n = "b" THEN [present |-> TRUE, content |-> TextAndLink("c")]
     ELSE [present |-> FALSE, content |-> EmptyContent]]

NoVaultCall ==
  [op |-> "none", path |-> MdPath("a"), path2 |-> MdPath("a"),
   content |-> EmptyContent, query |-> "", threw |-> FALSE, fromCache |-> FALSE,
   built |-> FALSE, links |-> << >>, data |-> << >>, errors |-> << >>,
   results |-> << >>, nodes |-> << >>, edges |-> << >>, removed |-> {},
   depth |-> 0, isNull |-> FALSE, options |-> DefaultOptions, pairs |-> << >>,
   metadata |-> Metadata(0, 0, 0)]

VaultStart ==
  /\ disk = InitialDisk
  /\ unreadable = {}
  /\ fileCache = NewCache(FileCacheOptions)
  /\ searchCache = NewCache(SearchCacheOptions)
  /\ linkCache = << >>
  /\ backlinkCache = << >>
  /\ graphLinkCache = << >>
  /\ vlast = NoVaultCall
  /\ calls = NoCalls
  /\ stats = NoStatistics
  /\ pool = NoPool
  /\ scan = NoScan
  /\ sim = NoSimilarity
  /\ upd = NoUpdate

Init ==
  /\ \E o \in CacheOptions : lru = NewCache(o)
  /\ now = 0
  /\ last = NoCall
  /\ VaultStart

Set ==
  \E in \in SetInputs(lru) :
    /\ lru' = CacheSet(lru, in.key, in.value, in.size, now)
    /\ last' = Call("set", in.key, in.size, FALSE, NoValue, lru, lru')
    /\ UNCHANGED <<now, vaultVars, scanVars>>

Get ==
  \E k \in Keys :
    /\ \A i \in 1..Len(lru.entries) :
         lru.entries[i].key = k => lru.entries[i].accessCount < MaxAccess
    /\ lru' = CacheGet(lru, k, now).cache
    /\ last' = Call("get", k, 0, CacheGet(lru, k, now).hit, CacheGet(lru, k, now).value,
                 lru, lru')
    /\ UNCHANGED <<now, vaultVars, scanVars>>

Has ==
  \E k \in Keys :
    /\ lru' = CacheHas(lru, k, now).cache
    /\ last' = Call("has", k, 0, CacheHas(lru, k, now).ret, NoValue, lru, lru')
    /\ UNCHANGED <<now, vaultVars, scanVars>>

Delete ==
  \E k \in Keys :
    /\ lru' = CacheDelete(lru, k)
    /\ last' = Call("delete", k, 0, MapHas(lru.entries, k), NoValue, lru, lru')
    /\ UNCHANGED <<now, vaultVars, scanVars>>

Clear ==
  /\ lru' = CacheClear(lru)
  /\ last' = Call("clear", "", 0, FALSE, NoValue, lru, lru')
  /\ UNCHANGED <<now, vaultVars, scanVars>>

\* time passes between calls
Tick ==
  /\ now < MaxTime
  /\ now' = now + 1
  /\ last' = Call("tick", "", 0, FALSE, NoValue, lru, lru)
  /\ UNCHANGED <<lru, vaultVars, scanVars>>

Next == Set \/ Get \/ Has \/ Delete \/ Clear \/ Tick

Spec == Init /\ [][Next]_vars

\* ------------------------------------------------------------------------
\* The server: FileUtils, LinkParser, GraphUtils and SearchUtils share one
\* vault and index.ts's caches; calls come one at a time
\* ------------------------------------------------------------------------
CallPaths == {BarePath("a"), MdPath("b"), MdPath("c")}
WriteInputs ==
  { [path |-> BarePath("a"), content |-> LinkTo("c")],
    [path |-> MdPath("b"), content |-> TextX] }
DeleteInputs == {BarePath("b")}
RenameInputs == { [old |-> BarePath("a"), new |-> BarePath("c")] }
LinkPaths == {MdPath("a"), MdPath("b"), MdPath("c")}
Queries == {"x"}

InitVault ==
  /\ lru = NewCache([maxSize |-> 2, maxItems |-> 10, ttl |-> 0])
  /\ now = 0
  /\ last = NoCall
  /\ VaultStart

\* no cached entry has been read more than MaxAccess times
Bounded(c) == \A i \in 1..Len(c.entries) : c.entries[i].accessCount <= MaxAccess

TheEngine == Engine(fileCache, linkCache, backlinkCache)

SetEngine(e) ==
  /\ fileCache' = e.fileCache
  /\ linkCache' = e.linkCache
  /\ backlinkCache' = e.backlinkCache

Removed(before, after) == KeysOf(before.entries) \ KeysOf(after.entries)

DoReadFile ==
  \E p \in CallPaths :
    \E r \in {ReadFile(disk, unreadable, fileCache, p, now)} :
    /\ Bounded(r.cache)
    /\ fileCache' = r.cache
    /\ vlast' = [NoVaultCall EXCEPT !.op = "readFile", !.path = p,
                   !.threw = r.threw, !.content = r.content,
                   !.fromCache = r.fromCache, !.removed = Removed(fileCache, r.cache)]
    /\ UNCHANGED <<disk, unreadable, searchCache, linkCache, backlinkCache,
                   graphLinkCache, now, cacheVars, scanVars>>

DoWriteFile ==
  \E in \in WriteInputs :
    \E r \in {WriteFile(disk, fileCache, in.path, in.content)} :
    /\ disk' = r.disk
    /\ fileCache' = r.cache
    /\ vlast' = [NoVaultCall EXCEPT !.op = "writeFile", !.path = in.path,
                   !.content = in.content, !.removed = Removed(fileCache, r.cache)]
    /\ UNCHANGED <<unreadable, searchCache, linkCache, backlinkCache,
                   graphLinkCache, now, cacheVars, scanVars>>

DoDeleteFile ==
  \E p \in DeleteInputs :
    \E r \in {DeleteFile(disk, fileCache, p)} :
    /\ disk' = r.disk
    /\ fileCache' = r.cache
    /\ vlast' = [NoVaultCall EXCEPT !.op = "deleteFile", !.path = p,
                   !.threw = r.threw, !.removed = Removed(fileCache, r.cache)]
    /\ UNCHANGED <<unreadable, searchCache, linkCache, backlinkCache,
                   graphLinkCache, now, cacheVars, scanVars>>

DoRenameFile ==
  \E in \in RenameInputs :
    \E r \in {RenameFile(disk, fileCache, in.old, in.new)} :
    /\ disk' = r.disk
    /\ fileCache' = r.cache
    /\ vlast' = [NoVaultCall EXCEPT !.op = "renameFile", !.path = in.old,
                   !.path2 = in.new, !.threw = r.threw,
                   !.removed = Removed(fileCache, r.cache)]
    /\ UNCHANGED <<unreadable, searchCache, linkCache, backlinkCache,
                   graphLinkCache, now, cacheVars, scanVars>>

\* LinkParser.buildLinkGraph() called directly
DoBuildLinkGraph ==
  \E g \in {BuildLinkGraph(disk, unreadable, fileCache, now)} :
  /\ Bounded(g.fileCache)
  /\ SetEngine(AfterBuild(g))
  /\ vlast' = [NoVaultCall EXCEPT !.op = "buildLinkGraph", !.threw = g.threw,
                 !.built = TRUE, !.nodes = g.nodes, !.edges = g.edges,
                 !.path = g.failed]
  /\ UNCHANGED <<disk, unreadable, searchCache, graphLinkCache, now, cacheVars, scanVars>>

DoLinkGetForwardLinks ==
  \E p \in LinkPaths :
    \E r \in {LinkGetForwardLinks(disk, unreadable, TheEngine, p, now)} :
    /\ Bounded(r.engine.fileCache)
    /\ SetEngine(r.engine)
    /\ vlast' = [NoVaultCall EXCEPT !.op = "LinkParser.getForwardLinks", !.path = p,
                   !.threw = r.threw, !.built = r.built, !.links = r.links]
    /\ UNCHANGED <<disk, unreadable, searchCache, graphLinkCache, now, cacheVars, scanVars>>

DoLinkGetBacklinks ==
  \E p \in LinkPaths :
    \E r \in {LinkGetBacklinks(disk, unreadable, TheEngine, p, now)} :
    /\ Bounded(r.engine.fileCache)
    /\ SetEngine(r.engine)
    /\ vlast' = [NoVaultCall EXCEPT !.op = "LinkParser.getBacklinks", !.path = p,
                   !.threw = r.threw, !.built = r.built, !.links = r.links]
    /\ UNCHANGED <<disk, unreadable, searchCache, graphLinkCache, now, cacheVars, scanVars>>

DoGraphGetBacklinks ==
  \E p \in CallPaths :
    \E r \in {GraphGetBacklinks(disk, unreadable, TheEngine, graphLinkCache, p, now)} :
    /\ Bounded(r.engine.fileCache)
    /\ SetEngine(r.engine)
    /\ graphLinkCache' = r.graphCache
    /\ vlast' = [NoVaultCall EXCEPT !.op = "GraphUtils.getBacklinks", !.path = p,
                   !.data = r.data, !.errors = r.errors]
    /\ UNCHANGED <<disk, unreadable, searchCache, now, cacheVars, scanVars>>

DoGraphGetForwardLinks ==
  \E p \in CallPaths :
    \E r \in {GraphGetForwardLinks(disk, unreadable, TheEngine, graphLinkCache, p, now)} :
    /\ Bounded(r.engine.fileCache)
    /\ SetEngine(r.engine)
    /\ graphLinkCache' = r.graphCache
    /\ vlast' = [NoVaultCall EXCEPT !.op = "GraphUtils.getForwardLinks", !.path = p,
                   !.data = r.data, !.errors = r.errors]
    /\ UNCHANGED <<disk, unreadable, searchCache, now, cacheVars, scanVars>>

DoSearchText ==
  \E q \in Queries :
    \E r \in {SearchText(disk, unreadable, fileCache, searchCache, q, now)} :
    /\ Bounded(r.fileCache) /\ Bounded(r.searchCache)
    /\ fileCache' = r.fileCache
    /\ searchCache' = r.searchCache
    /\ vlast' = [NoVaultCall EXCEPT !.op = "searchText", !.query = q,
                   !.fromCache = r.fromCache, !.results = r.response.results,
                   !.errors = r.response.errors]
    /\ UNCHANGED <<disk, unreadable, linkCache, backlinkCache, graphLinkCache,
                   now, cacheVars, scanVars>>

\* the environment: the permissions of note b change
Chmod ==
  /\ unreadable' = IF "b" \in unreadable THEN {} ELSE {"b"}
  /\ vlast' = [NoVaultCall EXCEPT !.op = "chmod", !.path = MdPath("b")]
  /\ UNCHANGED <<disk, fileCache, searchCache, linkCache, backlinkCache,
                 graphLinkCache, now, cacheVars, scanVars>>

\* the server sits idle for a little over half an hour
Wait ==
  /\ now < MaxWaits * WaitStep
  /\ now' = now + WaitStep
  /\ vlast' = [NoVaultCall EXCEPT !.op = "wait"]
  /\ UNCHANGED <<disk, unreadable, fileCache, searchCache, linkCache, backlinkCache,
                 graphLinkCache, cacheVars, scanVars>>

\* the content store in sequential use
NextFiles ==
  \/ DoReadFile \/ DoWriteFile \/ DoDeleteFile \/ DoRenameFile \/ Chmod \/ Wait

SpecFiles == InitVault /\ [][NextFiles]_vars

\* LinkParser's queries between mutations of the vault
NextLinks ==
  \/ DoWriteFile \/ DoDeleteFile \/ DoRenameFile \/ Chmod \/ Wait
  \/ DoBuildLinkGraph \/ DoLinkGetForwardLinks \/ DoLinkGetBacklinks

SpecLinks == InitVault /\ [][NextLinks]_vars

\* GraphUtils' queries between mutations of the vault, all within the
\* content cache's ttl
NextGraph ==
  \/ DoWriteFile \/ DoDeleteFile \/ DoRenameFile \/ Chmod
  \/ DoGraphGetBacklinks \/ DoGraphGetForwardLinks

SpecGraph == InitVault /\ [][NextGraph]_vars

\* text search between mutations of the vault
NextSearch ==
  \/ DoWriteFile \/ DoDeleteFile \/ DoRenameFile \/ Chmod \/ Wait
  \/ DoSearchText

SpecSearch == InitVault /\ [][NextSearch]_vars

\* a vault whose notes refer to each other in every form of link: a links
\* to b twice, b links to a as [[a]], [[a|d]], [[a.md]] and [t](a.md) and to
\* itself
LinkedDisk ==
  [n \in NameSet |->
     IF n = "a" THEN [present |-> TRUE, content |-> << <<Wiki("b"), Wiki("b")>> >>]
     ELSE IF n = "b"
     THEN [present |-> TRUE,
           content |-> << <<Wiki("a"), WikiAs("a", "d")>>,
                          <<WikiMd("a"), MdLink("t", "a")>>,
                          <<Wiki("b")>> >>]
     ELSE [present |-> FALSE, content |-> EmptyContent]]

InitLinked ==
  /\ lru = NewCache([maxSize |-> 2, maxItems |-> 10, ttl |-> 0])
  /\ now = 0
  /\ last = NoCall
  /\ disk = LinkedDisk
  /\ unreadable = {}
  /\ fileCache = NewCache(FileCacheOptions)
  /\ searchCache = NewCache(SearchCacheOptions)
  /\ linkCache = << >>
  /\ backlinkCache = << >>
  /\ graphLinkCache = << >>
  /\ vlast = NoVaultCall
  /\ calls = NoCalls
  /\ stats = NoStatistics
  /\ pool = NoPool
  /\ scan = NoScan
  /\ sim = NoSimilarity
  /\ upd = NoUpdate

\* obsidian_rename_file calls tried, updateLinks left at its default (true)
RenameToolInputs ==
  { [old |-> BarePath("a"), new |-> BarePath("c")],
    [old |-> MdPath("a"), new |-> MdPath("c")],
    [old |-> MdPath("c"), new |-> MdPath("a")] }

DoRenameTool ==
  \E in \in RenameToolInputs :
    \E r \in {RenameTool(disk, unreadable, fileCache, in.old, in.new, TRUE, now)} :
    /\ Bounded(r.cache)
    /\ disk' = r.disk
    /\ fileCache' = r.cache
    /\ vlast' = [NoVaultCall EXCEPT !.op = "obsidian_rename_file", !.path = in.old,
                   !.path2 = in.new, !.threw = ~r.success, !.data = r.updatedLinks]
    /\ UNCHANGED <<unreadable, searchCache, linkCache, backlinkCache,
                   graphLinkCache, now, cacheVars, scanVars>>

\* renames with link updating and LinkParser's graph over the linked vault
NextLinked ==
  \/ DoRenameTool \/ DoWriteFile \/ DoDeleteFile \/ Chmod
  \/ DoBuildLinkGraph \/ DoLinkGetForwardLinks \/ DoLinkGetBacklinks

SpecLinked == InitLinked /\ [][NextLinked]_vars

\* a vault with a cycle and two routes of different length: a links to b and
\* c, b links to a and c, c links to a
PathsDisk ==
  [n \in NameSet |->
     IF n = "a" THEN [present |-> TRUE, content |-> << <<Wiki("b"), Wiki("c")>> >>]
     ELSE IF n = "b"
     THEN [present |-> TRUE, content |-> << <<Wiki("a"), Wiki("c")>> >>]
     ELSE [present |-> TRUE, content |-> LinkTo("a")]]

InitPaths ==
  /\ lru = NewCache([maxSize |-> 2, maxItems |-> 10, ttl |-> 0])
  /\ now = 0
  /\ last = NoCall
  /\ disk = PathsDisk
  /\ unreadable = {}
  /\ fileCache = NewCache(FileCacheOptions)
  /\ searchCache = NewCache(SearchCacheOptions)
  /\ linkCache = << >>
  /\ backlinkCache = << >>
  /\ graphLinkCache = << >>
  /\ vlast = NoVaultCall
  /\ calls = NoCalls
  /\ stats = NoStatistics
  /\ pool = NoPool
  /\ scan = NoScan
  /\ sim = NoSimilarity
  /\ upd = NoUpdate

\* the depth arguments tried: 0 .. MaxDepth
Depths == 0..MaxDepth

\* deleteFile of any note of the vault
DoDeleteNote ==
  \E p \in LinkPaths :
    \E r \in {DeleteFile(disk, fileCache, p)} :
    /\ ~r.threw
    /\ disk' = r.disk
    /\ fileCache' = r.cache
    /\ vlast' = [NoVaultCall EXCEPT !.op = "deleteFile", !.path = p,
                   !.threw = r.threw, !.removed = Removed(fileCache, r.cache)]
    /\ UNCHANGED <<unreadable, searchCache, linkCache, backlinkCache,
                   graphLinkCache, now, cacheVars, scanVars>>

DoGraphFindShortestPath ==
  \E p \in CallPaths, q \in CallPaths :
    \E r \in {GraphFindShortestPath(disk, unreadable, TheEngine, graphLinkCache,
                                    p, q, now)} :
    /\ Bounded(r.engine.fileCache)
    /\ SetEngine(r.engine)
    /\ graphLinkCache' = r.graphCache
    /\ vlast' = [NoVaultCall EXCEPT !.op = "GraphUtils.findShortestPath", !.path = p,
                   !.path2 = q, !.data = r.data, !.errors = r.errors]
    /\ UNCHANGED <<disk, unreadable, searchCache, now, cacheVars, scanVars>>

DoLinkFindShortestPath ==
  \E p \in LinkPaths, q \in LinkPaths :
    \E r \in {LinkFindShortestPath(disk, unreadable, TheEngine, p, q, now)} :
    /\ Bounded(r.engine.fileCache)
    /\ SetEngine(r.engine)
    /\ vlast' = [NoVaultCall EXCEPT !.op = "LinkParser.findShortestPath", !.path = p,
                   !.path2 = q, !.threw = r.threw, !.built = r.built,
                   !.isNull = r.isNull, !.data = r.path]
    /\ UNCHANGED <<disk, unreadable, searchCache, graphLinkCache, now, cacheVars, scanVars>>

DoGetNoteConnections ==
  \E p \in CallPaths, depth \in Depths :
    \E r \in {GetNoteConnections(disk, unreadable, TheEngine, graphLinkCache,
                                 p, depth, now)} :
    /\ Bounded(r.engine.fileCache)
    /\ SetEngine(r.engine)
    /\ graphLinkCache' = r.graphCache
    /\ vlast' = [NoVaultCall EXCEPT !.op = "GraphUtils.getNoteConnections", !.path = p,
                   !.depth = depth, !.data = r.data, !.errors = r.errors,
                   !.metadata = r.metadata]
    /\ UNCHANGED <<disk, unreadable, searchCache, now, cacheVars, scanVars>>

DoFindOrphanedNotes ==
  \E r \in {FindOrphanedNotes(disk, unreadable, TheEngine, graphLinkCache, now)} :
  /\ Bounded(r.engine.fileCache)
  /\ SetEngine(r.engine)
  /\ graphLinkCache' = r.graphCache
  /\ vlast' = [NoVaultCall EXCEPT !.op = "GraphUtils.findOrphanedNotes",
                 !.data = r.data, !.errors = r.errors, !.metadata = r.metadata]
  /\ UNCHANGED <<disk, unreadable, searchCache, now, cacheVars, scanVars>>

\* shortest-path queries of GraphUtils and LinkParser between mutations of
\* the vault
NextPaths ==
  \/ DoWriteFile \/ DoDeleteNote \/ Chmod
  \/ DoGraphFindShortestPath \/ DoLinkFindShortestPath

SpecPaths == InitPaths /\ [][NextPaths]_vars

\* the connection and orphan queries of GraphUtils between mutations of the
\* vault
NextReach ==
  \/ DoWriteFile \/ DoDeleteNote \/ Chmod
  \/ DoGetNoteConnections \/ DoFindOrphanedNotes

SpecReach == InitPaths /\ [][NextReach]_vars

\* the batchProcess calls tried: the documents scanned, the ones whose
\* processing fails, and the window
ItemCounts == {0, 1, 3, MaxItems}

FailingSets(n) == { {}, {k \in 1..n : k = 1}, {k \in 1..n : k = n}, 1..n }

BatchCalls ==
  { [caller |-> "batchProcess", batchSize |-> w] : w \in {1, 2, 3} }
  \cup { [caller |-> "getVaultStatistics", batchSize |-> StatisticsBatchSize] }

\* a caller calls batchProcess: results = [], i = 0
CallBatchProcess ==
  /\ scan.phase \in {"idle", "returned"}
  /\ \E n \in ItemCounts, c \in BatchCalls :
       \E failing \in FailingSets(n) :
         scan' = [caller |-> c.caller, items |-> [k \in 1..n |-> k], failing |-> failing,
                  batchSize |-> c.batchSize, i |-> 0, phase |-> "loop",
                  promises |-> [k \in 1..n |-> NoPromise], results |-> << >>]
  /\ UNCHANGED <<now, cacheVars, vaultVars, sim, upd, pool, stats, calls>>

\* one turn of the for loop: slice the batch and map it, which calls the
\* processor of every item of the batch
LaunchBatch ==
  /\ scan.phase = "loop"
  /\ scan.i < Len(scan.items)
  /\ scan' = [scan EXCEPT
                !.phase = "awaiting",
                !.promises =
                  [k \in 1..Len(scan.items) |->
                     IF k \in BatchPositions(scan.items, scan.i, scan.batchSize)
                     THEN [state |-> "pending", started |-> scan.promises[k].started + 1,
                           entry |-> NoEntry]
                     ELSE scan.promises[k]]]
  /\ UNCHANGED <<now, cacheVars, vaultVars, sim, upd, pool, stats, calls>>

\* the processor of one item in flight resolves or throws
SettleOne ==
  /\ scan.phase = "awaiting"
  /\ \E k \in InFlight(scan) :
       scan' = [scan EXCEPT
                  !.promises[k] =
                    [state |-> "fulfilled", started |-> scan.promises[k].started,
                     entry |-> BatchPromise(scan.items[k], scan.failing)]]
  /\ UNCHANGED <<now, cacheVars, vaultVars, sim, upd, pool, stats, calls>>

\* Promise.all resolves: results.push(...batchResults); i += batchSize
CollectBatch ==
  /\ scan.phase = "awaiting"
  /\ InFlight(scan) = {}
  /\ scan' = [scan EXCEPT
                !.phase = "loop",
                !.i = scan.i + scan.batchSize,
                !.results =
                  @ \o BatchResults(scan.promises,
                                    BatchPositions(scan.items, scan.i, scan.batchSize))]
  /\ UNCHANGED <<now, cacheVars, vaultVars, sim, upd, pool, stats, calls>>

\* the loop ends: return results
ReturnResults ==
  /\ scan.phase = "loop"
  /\ scan.i >= Len(scan.items)
  /\ scan' = [scan EXCEPT !.phase = "returned"]
  /\ UNCHANGED <<now, cacheVars, vaultVars, sim, upd, pool, stats, calls>>

NextBatch == CallBatchProcess \/ LaunchBatch \/ SettleOne \/ CollectBatch \/ ReturnResults

SpecBatch == InitVault /\ [][NextBatch]_vars

\* the vault of the duplicate scan: Note1.md and note1.md differ in case
\* only, note2.md is one character from them, todo.md is unlike them.  The
\* documents: five characters, one and two of them changed; 2 KiB; exactly
\* SAFE_SIZE_LIMIT bytes; one byte more
FiveX == << <<Run("x", 5)>> >>
FourXY == << <<Run("x", 4), Word("y")>> >>
ThreeXYY == << <<Run("x", 3), Word("y"), Word("y")>> >>
TwoKB == << <<Run("x", 2 * 1024)>> >>
AtLimit == << <<Run("x", SAFE_SIZE_LIMIT)>> >>
OverLimit == << <<Run("x", SAFE_SIZE_LIMIT + 1)>> >>

DuplicateNames == {"Note1", "note1", "note2", "todo"}

DuplicatesDisk ==
  [n \in DuplicateNames |->
     [present |-> TRUE,
      content |-> IF n = "note1" THEN FourXY
                  ELSE IF n = "note2" THEN ThreeXYY
                  ELSE FiveX]]

NoteInputs ==
  { [path |-> MdPath("note1"), content |-> TwoKB],
    [path |-> MdPath("note2"), content |-> FiveX],
    [path |-> MdPath("note2"), content |-> AtLimit],
    [path |-> MdPath("note2"), content |-> OverLimit],
    [path |-> MdPath("todo"), content |-> TwoKB],
    [path |-> MdPath("todo"), content |-> AtLimit],
    [path |-> MdPath("todo"), content |-> OverLimit] }

DuplicateOptions ==
  { DefaultOptions,
    [DefaultOptions EXCEPT !.checkTitles = FALSE],
    [DefaultOptions EXCEPT !.checkContent = FALSE],
    [DefaultOptions EXCEPT !.threshold = Ratio(1, 2)] }

InitDuplicates ==
  /\ lru = NewCache([maxSize |-> 2, maxItems |-> 10, ttl |-> 0])
  /\ now = 0
  /\ last = NoCall
  /\ disk = DuplicatesDisk
  /\ unreadable = {}
  /\ fileCache = NewCache(FileCacheOptions)
  /\ searchCache = NewCache(SearchCacheOptions)
  /\ linkCache = << >>
  /\ backlinkCache = << >>
  /\ graphLinkCache = << >>
  /\ vlast = NoVaultCall
  /\ calls = NoCalls
  /\ stats = NoStatistics
  /\ pool = NoPool
  /\ scan = NoScan
  /\ sim = NoSimilarity
  /\ upd = NoUpdate

DoWriteNote ==
  \E in \in NoteInputs :
    \E r \in {WriteFile(disk, fileCache, in.path, in.content)} :
    /\ disk' = r.disk
    /\ fileCache' = r.cache
    /\ vlast' = [NoVaultCall EXCEPT !.op = "writeFile", !.path = in.path,
                   !.content = in.content, !.removed = Removed(fileCache, r.cache)]
    /\ UNCHANGED <<unreadable, searchCache, linkCache, backlinkCache,
                   graphLinkCache, now, cacheVars, scanVars>>

\* the environment: the permissions of todo.md change
ChmodNote ==
  /\ unreadable' = IF "todo" \in unreadable THEN {} ELSE {"todo"}
  /\ vlast' = [NoVaultCall EXCEPT !.op = "chmod", !.path = MdPath("todo")]
  /\ UNCHANGED <<disk, fileCache, searchCache, linkCache, backlinkCache,
                 graphLinkCache, now, cacheVars, scanVars>>

\* no cached document has been read more than MaxReads times
ReadsBounded(c) == \A i \in 1..Len(c.entries) : c.entries[i].accessCount <= MaxReads

DoFindDuplicateNotes ==
  \E options \in DuplicateOptions :
    \E r \in {FindDuplicateNotes(disk, unreadable, fileCache, options, now)} :
    /\ ReadsBounded(r.cache)
    /\ fileCache' = r.cache
    /\ vlast' = [NoVaultCall EXCEPT !.op = "findDuplicateNotes", !.options = options,
                   !.data = r.data, !.errors = r.errors, !.pairs = r.pairs,
                   !.removed = Removed(fileCache, r.cache),
                   !.metadata = r.metadata]
    /\ UNCHANGED <<disk, unreadable, searchCache, linkCache, backlinkCache,
                   graphLinkCache, now, cacheVars, scanVars>>

NextDuplicates == DoWriteNote \/ ChmodNote \/ DoFindDuplicateNotes

SpecDuplicates == InitDuplicates /\ [][NextDuplicates]_vars

\* calculateStringSimilarity on its own.  The strings tried: every string of
\* at most MaxLen characters over a two-letter alphabet, and two strings over
\* MAX_LEVENSHTEIN_LENGTH, of different lengths, whose samples differ more and
\* more towards the end
Alphabet == {"a", "b"}
ShortStrings == UNION { [1..n -> Alphabet] : n \in 0..MaxLen }
LongA == Repeated("a", MAX_LEVENSHTEIN_LENGTH + 1)
LongAB == Repeated("a", 600) \o Repeated("b", 300)
SimilarityInputs ==
  (ShortStrings \X ShortStrings)
  \cup { <<LongA, LongAB>>, <<LongA, LongA>>, <<LongAB, LongAB>> }
  \cup { <<LongA, s>> : s \in ShortStrings }
  \cup { <<s, LongA>> : s \in ShortStrings }

InitSimilarity ==
  /\ lru = NewCache([maxSize |-> 2, maxItems |-> 10, ttl |-> 0])
  /\ now = 0
  /\ last = NoCall
  /\ disk = InitialDisk
  /\ unreadable = {}
  /\ fileCache = NewCache(FileCacheOptions)
  /\ searchCache = NewCache(SearchCacheOptions)
  /\ linkCache = << >>
  /\ backlinkCache = << >>
  /\ graphLinkCache = << >>
  /\ vlast = NoVaultCall
  /\ calls = NoCalls
  /\ stats = NoStatistics
  /\ pool = NoPool
  /\ scan = NoScan
  /\ \E in \in SimilarityInputs :
       sim = [NoSimilarity EXCEPT !.str1 = in[1], !.str2 = in[2]]
  /\ upd = NoUpdate

\* the two strings are compared in both orders, and the first with itself
DoCalculateStringSimilarity ==
  /\ ~sim.called
  /\ sim' = [sim EXCEPT !.called = TRUE,
                        !.forward = CalculateStringSimilarity(sim.str1, sim.str2),
                        !.backward = CalculateStringSimilarity(sim.str2, sim.str1),
                        !.own = CalculateStringSimilarity(sim.str1, sim.str1)]
  /\ UNCHANGED <<now, cacheVars, vaultVars, scan, upd, pool, stats, calls>>

NextSimilarity == DoCalculateStringSimilarity

SpecSimilarity == InitSimilarity /\ [][NextSimilarity]_vars

\* updateLinks on its own, applied again and again to its own result.  The
\* texts tried are made of two pieces: a wiki link with or without display
\* text, a markdown link, a word, nothing; the targets are names with and
\* without ".md", padded with spaces, and names that hold a character of the
\* link syntax.  Every path is a string: a caller may pass any.
LinkTargets ==
  { <<"a">>, <<"a", ".", "m", "d">>, <<" ", "a", " ">>, <<"b">>, <<"a", ")", "b">>,
    <<"a", "|", "b">> }
OldPaths == { <<"a">>, <<"a", ".", "m", "d">> }
NewPaths ==
  { <<"b">>, <<"b", ".", "m", "d">>, <<"a">>, <<"a", ".", "m", "d">>, <<"a", ")", "b">>,
    <<"a", "|", "b">>, <<"b", " ", "(", "1", ")">> }
Pieces ==
  { << >>, <<"x">>, <<"[">> }
  \cup { <<"[", "[">> \o t \o <<"]", "]">> : t \in LinkTargets }
  \cup { <<"[", "[">> \o t \o <<"|", "d", "]", "]">> : t \in LinkTargets }
  \cup { <<"[", "d", "]", "(">> \o t \o <<")">> : t \in LinkTargets }
  \cup { <<"[", "]", "(">> \o t \o <<")">> : t \in LinkTargets }
Bodies == { p \o q : p \in Pieces, q \in Pieces }

InitUpdate ==
  /\ lru = NewCache([maxSize |-> 2, maxItems |-> 10, ttl |-> 0])
  /\ now = 0
  /\ last = NoCall
  /\ disk = InitialDisk
  /\ unreadable = {}
  /\ fileCache = NewCache(FileCacheOptions)
  /\ searchCache = NewCache(SearchCacheOptions)
  /\ linkCache = << >>
  /\ backlinkCache = << >>
  /\ graphLinkCache = << >>
  /\ vlast = NoVaultCall
  /\ calls = NoCalls
  /\ stats = NoStatistics
  /\ pool = NoPool
  /\ scan = NoScan
  /\ sim = NoSimilarity
  /\ \E body \in Bodies, oldPath \in OldPaths, newPath \in NewPaths :
       upd = [NoUpdate EXCEPT !.content = body, !.oldPath = oldPath,
                              !.newPath = newPath, !.updated = body]

\* updated = parser.updateLinks(updated, oldPath, newPath)
DoUpdateLinks ==
  /\ upd.calls < MaxCalls
  /\ upd' = [upd EXCEPT !.calls = upd.calls + 1, !.before = upd.updated,
                        !.updated = UpdateLinksText(upd.updated, upd.oldPath,
                                                    upd.newPath)]
  /\ UNCHANGED <<now, cacheVars, vaultVars, scan, sim, pool, stats, calls>>

NextUpdate == DoUpdateLinks

SpecUpdate == InitUpdate /\ [][NextUpdate]_vars

\* FileOperationPool on its own: callers hand it reads and writes at any
\* moment, the file system ends the operations in any order, each with
\* success or failure, and the finally callback of an ended operation runs
\* later, after any number of other events.
PoolSizes == {1, 2, DefaultMaxConcurrent}

InitPool ==
  /\ lru = NewCache([maxSize |-> 2, maxItems |-> 10, ttl |-> 0])
  /\ now = 0
  /\ last = NoCall
  /\ disk = InitialDisk
  /\ unreadable = {}
  /\ fileCache = NewCache(FileCacheOptions)
  /\ searchCache = NewCache(SearchCacheOptions)
  /\ linkCache = << >>
  /\ backlinkCache = << >>
  /\ graphLinkCache = << >>
  /\ vlast = NoVaultCall
  /\ calls = NoCalls
  /\ stats = NoStatistics
  /\ scan = NoScan
  /\ sim = NoSimilarity
  /\ upd = NoUpdate
  /\ \E maxConcurrent \in PoolSizes : pool = NewPool(maxConcurrent)

\* pool.readFile(filePath), pool.writeFile(filePath, content)
PoolCall(type) ==
  /\ pool.enqueued < MaxOperations
  /\ pool' = [Enqueue(pool, [id |-> pool.enqueued + 1, type |-> type])
                EXCEPT !.enqueued = pool.enqueued + 1]
  /\ UNCHANGED <<now, cacheVars, vaultVars, scan, sim, upd, stats, calls>>

PoolReadFile == PoolCall("read")

PoolWriteFile == PoolCall("write")

\* fs.stat / fs.readFile / fs.writeFile of an operation returns or throws
FileSystemEnds ==
  \E operation \in pool.executing, outcome \in {"resolved", "rejected"} :
    /\ pool' = ExecuteOperationEnds(pool, operation, outcome)
    /\ UNCHANGED <<now, cacheVars, vaultVars, scan, sim, upd, stats, calls>>

\* the finally callback of an ended operation runs
RunFinally ==
  \E operation \in pool.settling :
    /\ pool' = Finally(pool, operation)
    /\ UNCHANGED <<now, cacheVars, vaultVars, scan, sim, upd, stats, calls>>

NextPool == PoolReadFile \/ PoolWriteFile \/ FileSystemEnds \/ RunFinally

SpecPool == InitPool /\ [][NextPool]_vars

\* getVaultStatistics on a server just started, the vault at rest: the
\* processors of one batch run side by side on the shared LinkParser, the
\* file system answering their calls in any order.
StatisticsDisks == {InitialDisk, LinkedDisk, PathsDisk}

InitStatistics ==
  /\ lru = NewCache([maxSize |-> 2, maxItems |-> 10, ttl |-> 0])
  /\ now = 0
  /\ last = NoCall
  /\ disk \in StatisticsDisks
  /\ unreadable = {}
  /\ fileCache = NewCache(FileCacheOptions)
  /\ searchCache = NewCache(SearchCacheOptions)
  /\ linkCache = << >>
  /\ backlinkCache = << >>
  /\ graphLinkCache = << >>
  /\ vlast = NoVaultCall
  /\ calls = NoCalls
  /\ pool = NoPool
  /\ scan = NoScan
  /\ sim = NoSimilarity
  /\ upd = NoUpdate
  /\ stats = NoStatistics

StatisticsFrame ==
  UNCHANGED <<disk, unreadable, searchCache, graphLinkCache, vlast, now, cacheVars,
              scan, sim, upd, pool, calls>>

\* a processor goes on from an answer of the file system
Resume(p, r) ==
  /\ SetEngine(r.engine)
  /\ stats' = [stats EXCEPT !.procs[p] = r.proc]
  /\ StatisticsFrame

\* getVaultStatistics(): the files are listed and batchProcess calls the
\* processor of every file of the first batch, each up to its fs.stat
CallGetVaultStatistics ==
  /\ stats.phase = "none"
  /\ Len(ListMarkdownFiles(disk)) <= StatisticsBatchSize
  /\ stats' = [stats EXCEPT
                 !.phase = "running",
                 !.procs = [p \in 1..Len(ListMarkdownFiles(disk)) |->
                              [NoProcessor EXCEPT !.file = ListMarkdownFiles(disk)[p],
                                                  !.pc = "stat"]]]
  /\ UNCHANGED <<fileCache, linkCache, backlinkCache>>
  /\ StatisticsFrame

StatReturns ==
  \E p \in DOMAIN stats.procs :
    /\ stats.procs[p].pc = "stat"
    /\ \E r \in {AfterStat(TheEngine, stats.procs[p], now)} : Resume(p, r)

ReadReturns ==
  \E p \in DOMAIN stats.procs :
    /\ stats.procs[p].pc = "read"
    /\ \E r \in {AfterRead(TheEngine, stats.procs[p],
                           disk[stats.procs[p].file.name].content, now)} : Resume(p, r)

ListReturns ==
  \E p \in DOMAIN stats.procs :
    /\ stats.procs[p].pc = "list"
    /\ \E r \in {AfterList(TheEngine, stats.procs[p], ListMarkdownFiles(disk), now)} :
         Resume(p, r)

BuildReadReturns ==
  \E p \in DOMAIN stats.procs :
    /\ stats.procs[p].pc = "build"
    /\ \E r \in {AfterBuildRead(TheEngine, stats.procs[p],
                   disk[stats.procs[p].files[stats.procs[p].k].name].content, now)} :
         Resume(p, r)

\* Promise.all of the batch resolves; the results are summed and returned
ReturnStatistics ==
  /\ stats.phase = "running"
  /\ \A p \in DOMAIN stats.procs : stats.procs[p].pc = "done"
  /\ stats' = [stats EXCEPT !.phase = "returned", !.totalLinks = TotalLinks(stats.procs)]
  /\ UNCHANGED <<fileCache, linkCache, backlinkCache>>
  /\ StatisticsFrame

NextStatistics ==
  \/ CallGetVaultStatistics \/ StatReturns \/ ReadReturns \/ ListReturns
  \/ BuildReadReturns \/ ReturnStatistics

SpecStatistics == InitStatistics /\ [][NextStatistics]_vars

\* readFile and writeFile calls that overlap: several tool calls are served
\* at a time, and the file system answers in any order.  mkdir of the vault
\* directory changes nothing and is not a step of its own.
OverlapFrame ==
  UNCHANGED <<unreadable, searchCache, linkCache, backlinkCache, graphLinkCache, vlast,
              now, cacheVars, scan, sim, upd, pool, stats>>

\* readFile(p) is called: a cache hit returns at once
ReadFileStarts ==
  \E p \in CallPaths :
    \E r \in {ReadFileBegin(fileCache, p, now)} :
      /\ Len(calls.list) < MaxStarted
      /\ fileCache' = r.cache
      /\ calls' = [calls EXCEPT
                     !.list = Append(@,
                       IF r.hit
                       THEN [NewCall("readFile", p, r.content) EXCEPT !.pc = "done"]
                       ELSE [NewCall("readFile", p, EmptyContent)
                               EXCEPT !.pc = "fsRead", !.missed = TRUE])]
      /\ UNCHANGED disk
      /\ OverlapFrame

\* fs.readFile reads the file as it is now, or fails
FsReadFileReads ==
  \E i \in DOMAIN calls.list :
    LET call == calls.list[i]
        normalizedPath == EnsureMarkdownExtension(call.path)
    IN /\ call.op = "readFile" /\ call.pc = "fsRead"
       /\ calls' = [calls EXCEPT
                      !.clock = @ + 1,
                      !.list[i] =
                        IF Readable(disk, unreadable, normalizedPath)
                        THEN [call EXCEPT !.pc = "resume", !.diskAt = calls.clock + 1,
                                          !.content = disk[normalizedPath.name].content]
                        ELSE [call EXCEPT !.pc = "done", !.threw = TRUE]]
       /\ UNCHANGED <<disk, fileCache>>
       /\ OverlapFrame

\* readFile goes on behind its await: this.cache.set, return content
ReadFileResumes ==
  \E i \in DOMAIN calls.list :
    LET call == calls.list[i]
    IN /\ call.op = "readFile" /\ call.pc = "resume"
       /\ fileCache' = ReadFileEnd(fileCache, call.path, call.content, now)
       /\ calls' = [calls EXCEPT !.clock = @ + 1,
                                 !.list[i] = [call EXCEPT !.pc = "done",
                                                          !.cacheAt = calls.clock + 1]]
       /\ UNCHANGED disk
       /\ OverlapFrame

\* writeFile(p, content) is called
WriteFileStarts ==
  \E in \in WriteInputs :
    /\ Len(calls.list) < MaxStarted
    /\ calls' = [calls EXCEPT
                   !.list = Append(@, [NewCall("writeFile", in.path, in.content)
                                         EXCEPT !.pc = "fsWrite"])]
    /\ UNCHANGED <<disk, fileCache>>
    /\ OverlapFrame

\* fs.writeFile writes the file
FsWriteFileWrites ==
  \E i \in DOMAIN calls.list :
    LET call == calls.list[i]
    IN /\ call.op = "writeFile" /\ call.pc = "fsWrite"
       /\ disk' = WriteFile(disk, fileCache, call.path, call.content).disk
       /\ calls' = [calls EXCEPT !.clock = @ + 1,
                                 !.list[i] = [call EXCEPT !.pc = "resume",
                                                          !.diskAt = calls.clock + 1]]
       /\ UNCHANGED fileCache
       /\ OverlapFrame

\* writeFile goes on behind its await: this.cache?.delete(normalizedPath)
WriteFileResumes ==
  \E i \in DOMAIN calls.list :
    LET call == calls.list[i]
    IN /\ call.op = "writeFile" /\ call.pc = "resume"
       /\ fileCache' = CacheDelete(fileCache, EnsureMarkdownExtension(call.path))
       /\ calls' = [calls EXCEPT !.clock = @ + 1,
                                 !.list[i] = [call EXCEPT !.pc = "done",
                                                          !.cacheAt = calls.clock + 1]]
       /\ UNCHANGED disk
       /\ OverlapFrame

NextOverlap ==
  \/ ReadFileStarts \/ FsReadFileReads \/ ReadFileResumes
  \/ WriteFileStarts \/ FsWriteFileWrites \/ WriteFileResumes

SpecOverlap == InitVault /\ [][NextOverlap]_vars

\* FileUtils called with any spelling of a note's path: the tool handlers
\* pass the caller's string on as it is
SpelledPaths == {BarePath("a"), DottedPath("a"), AbsolutePath("a")}
SpelledContents == {TextX}

ReadSpelled ==
  \E p \in SpelledPaths :
    \E r \in {ReadFile(disk, unreadable, fileCache, p, now)} :
    /\ Bounded(r.cache)
    /\ fileCache' = r.cache
    /\ vlast' = [NoVaultCall EXCEPT !.op = "readFile", !.path = p,
                   !.threw = r.threw, !.content = r.content,
                   !.fromCache = r.fromCache, !.removed = Removed(fileCache, r.cache)]
    /\ UNCHANGED <<disk, unreadable, searchCache, linkCache, backlinkCache,
                   graphLinkCache, now, cacheVars, scanVars>>

WriteSpelled ==
  \E p \in SpelledPaths, content \in SpelledContents :
    \E r \in {WriteFile(disk, fileCache, p, content)} :
    /\ disk' = r.disk
    /\ fileCache' = r.cache
    /\ vlast' = [NoVaultCall EXCEPT !.op = "writeFile", !.path = p,
                   !.content = content, !.removed = Removed(fileCache, r.cache)]
    /\ UNCHANGED <<unreadable, searchCache, linkCache, backlinkCache,
                   graphLinkCache, now, cacheVars, scanVars>>

DeleteSpelled ==
  \E p \in SpelledPaths :
    \E r \in {DeleteFile(disk, fileCache, p)} :
    /\ disk' = r.disk
    /\ fileCache' = r.cache
    /\ vlast' = [NoVaultCall EXCEPT !.op = "deleteFile", !.path = p,
                   !.threw = r.threw, !.removed = Removed(fileCache, r.cache)]
    /\ UNCHANGED <<unreadable, searchCache, linkCache, backlinkCache,
                   graphLinkCache, now, cacheVars, scanVars>>

\* a rename to the name c, which no note has
RenameSpelled ==
  \E p \in SpelledPaths :
    \E r \in {RenameFile(disk, fileCache, p, MdPath("c"))} :
    /\ ~disk["c"].present
    /\ disk' = r.disk
    /\ fileCache' = r.cache
    /\ vlast' = [NoVaultCall EXCEPT !.op = "renameFile", !.path = p,
                   !.path2 = MdPath("c"), !.threw = r.threw,
                   !.removed = Removed(fileCache, r.cache)]
    /\ UNCHANGED <<unreadable, searchCache, linkCache, backlinkCache,
                   graphLinkCache, now, cacheVars, scanVars>>

NextSpelled == ReadSpelled \/ WriteSpelled \/ DeleteSpelled \/ RenameSpelled

SpecSpelled == InitVault /\ [][NextSpelled]_vars

\* ------------------------------------------------------------------------
\* Renames with link updating in a vault with a folder: a.md, b.md and c.md
\* in the root, sub/a.md and sub/x.md in the folder; b, c and sub/x each
\* carry the link [[a]], which in sub/x is the note's sibling sub/a
FolderNames == NameSet \cup {"sub/a", "sub/x", "todo"}

FolderDisk ==
  [n \in FolderNames |->
     IF n = "a" THEN [present |-> TRUE, content |-> TextX]
     ELSE IF n = "b" THEN [present |-> TRUE, content |-> TextAndLink("a")]
     ELSE IF n = "c" THEN [present |-> TRUE, content |-> LinkTo("a")]
     ELSE IF n = "sub/a" THEN [present |-> TRUE, content |-> TextX]
     ELSE IF n = "sub/x" THEN [present |-> TRUE, content |-> LinkTo("a")]
     ELSE [present |-> FALSE, content |-> EmptyContent]]

InitFolder ==
  /\ lru = NewCache([maxSize |-> 2, maxItems |-> 10, ttl |-> 0])
  /\ now = 0
  /\ last = NoCall
  /\ disk = FolderDisk
  /\ unreadable = {}
  /\ fileCache = NewCache(FileCacheOptions)
  /\ searchCache = NewCache(SearchCacheOptions)
  /\ linkCache = << >>
  /\ backlinkCache = << >>
  /\ graphLinkCache = << >>
  /\ vlast = NoVaultCall
  /\ calls = NoCalls
  /\ stats = NoStatistics
  /\ pool = NoPool
  /\ scan = NoScan
  /\ sim = NoSimilarity
  /\ upd = NoUpdate

\* obsidian_rename_file calls tried on the vault with a folder, updateLinks
\* left at its default (true): to a free name and back, onto a note that
\* exists, and of a note that is not there
FolderRenameInputs ==
  { [old |-> BarePath("a"), new |-> BarePath("todo")],
    [old |-> MdPath("a"), new |-> MdPath("todo")],
    [old |-> MdPath("todo"), new |-> MdPath("a")],
    [old |-> MdPath("a"), new |-> MdPath("b")] }

DoFolderRename ==
  \E in \in FolderRenameInputs :
    \E r \in {RenameTool(disk, unreadable, fileCache, in.old, in.new, TRUE, now)} :
    /\ Bounded(r.cache)
    /\ disk' = r.disk
    /\ fileCache' = r.cache
    /\ vlast' = [NoVaultCall EXCEPT !.op = "obsidian_rename_file", !.path = in.old,
                   !.path2 = in.new, !.threw = ~r.success, !.data = r.updatedLinks]
    /\ UNCHANGED <<unreadable, searchCache, linkCache, backlinkCache,
                   graphLinkCache, now, cacheVars, scanVars>>

\* the permissions of c.md are changed outside the server
ChmodReferrer ==
  /\ unreadable' = IF "c" \in unreadable THEN {} ELSE {"c"}
  /\ vlast' = [NoVaultCall EXCEPT !.op = "chmod", !.path = MdPath("c")]
  /\ UNCHANGED <<disk, fileCache, searchCache, linkCache, backlinkCache,
                 graphLinkCache, now, cacheVars, scanVars>>

NextFolder == DoFolderRename \/ ChmodReferrer

SpecFolder == InitFolder /\ [][NextFolder]_vars

\* a cache constructed without ttl (the lru of InitVault), used over hours
NextIdle == Set \/ Get \/ Has \/ Delete \/ Clear \/ Wait

SpecIdle == InitVault /\ [][NextIdle]_vars

\* ------------------------------------------------------------------------
\* Properties of the cache
\* ------------------------------------------------------------------------
Stored(c) == KeysOf(c.entries)

\* C1: after any sequence of set calls the sizes of the stored entries sum to
\* at most maxSize and at most maxItems entries are stored.
C1_WithinLimits ==
  /\ SumSizes(lru.entries) <= lru.maxSize
  /\ Len(lru.entries) <= lru.maxItems

\* C2: set(key, value, byteSize) stores the entry exactly when
\* byteSize <= maxSize; byteSize = maxSize leaves currentSize = maxSize, and
\* byteSize > maxSize changes nothing at all.
C2_SetStoresIffFits ==
  [][ last'.op = "set" =>
        /\ last'.size <= lru.maxSize =>
             /\ last'.key \in Stored(lru')
             /\ last'.size = lru.maxSize => lru'.currentSize = lru.maxSize
        /\ last'.size > lru.maxSize => lru' = lru ]_vars

\* C8: a byteSize <= 0 is accounted as 0, and the accounted size
\* getStats().totalSize is never negative.
C8_SizeNeverNegative ==
  /\ GetStats(lru).totalSize >= 0
  /\ \A i \in 1..Len(lru.entries) : lru.entries[i].size >= 0

\* C9: a cache constructed with maxSize 0 stays empty: has(k) is false for
\* every k and the item count is 0.
C9_ZeroMaxSizeStaysEmpty ==
  lru.maxSize = 0 =>
    /\ GetStats(lru).itemCount = 0
    /\ \A k \in Keys : ~CacheHas(lru, k, now).ret

\* C10: a set that fits (byteSize <= maxSize) removes, besides an old entry
\* under its own key, every TTL-expired entry and then unexpired entries from
\* the least recently used end only, no more of them than needed for
\* currentSize + byteSize <= maxSize and itemCount < maxItems; positions in the
\* Map are in order of lastAccessed, so nothing is evicted while a less
\* recently used unexpired entry stays.
Others(c, key) == MapDelete(c.entries, key)

Unexpired(c, key, t) ==
  SelectSeq(Others(c, key), LAMBDA e : ~IsExpired(c, e, t))

C10_EvictsInLruOrder ==
  [][ (last'.op = "set" /\ last'.size <= lru.maxSize) =>
        LET k == last'.key
            s == last'.size
            P == Others(lru, k)
            Q == Others(lru', k)
            U == Unexpired(lru, k, now)
            gone == { i \in 1..Len(U) : U[i].key \notin KeysOf(Q) }
        IN /\ \A i, j \in 1..Len(lru.entries) :
                i < j => lru.entries[i].lastAccessed <= lru.entries[j].lastAccessed
           /\ \A i \in 1..Len(P) : IsExpired(lru, P[i], now) => P[i].key \notin KeysOf(Q)
           /\ \A i, j \in 1..Len(U) : (i < j /\ j \in gone) => i \in gone
           /\ Q = SelectSeq(P, LAMBDA e : e.key \in KeysOf(Q))
           /\ gone # {} =>
                LET v == U[CHOOSE i \in gone : \A j \in gone : j <= i]
                IN \/ SumSizes(Q) + v.size + s > lru.maxSize
                   \/ Len(Q) + 1 >= lru.maxItems
           /\ \/ Q = << >>
              \/ SumSizes(Q) + s <= lru.maxSize /\ Len(Q) < lru.maxItems ]_vars

\* C10 witness: with a and b of one byte each filling a cache of maxSize 2,
\* set(c, 1) has evicted exactly a and kept b
C10_Witness ==
  /\ last.op = "set" /\ last.key = "c" /\ last.size = 1
  /\ last.removed = {"a"}
  /\ lru.maxSize = 2 /\ lru.maxItems = 10
  /\ [i \in 1..Len(lru.entries) |-> lru.entries[i].key] = <<"b", "c">>
  /\ lru.currentSize = 2

\* the entry stored under a key
EntryOf(c, key) == c.entries[IndexOfKey(c.entries, key)]

\* C11: a get that hits moves the entry to the most recently used end with
\* lastAccessed = now and accessCount one higher, the other entries keeping
\* their order; when the next call is a set that evicts that key, every other
\* entry stored has gone with it.
C11_GetMakesMostRecent ==
  [][ /\ (last'.op = "get" /\ last'.hit) =>
            lru'.entries =
              Append(MapDelete(lru.entries, last'.key),
                     [EntryOf(lru, last'.key) EXCEPT !.lastAccessed = now,
                                                      !.accessCount = @ + 1])
      /\ ( /\ last.op = "get" /\ last.hit
           /\ last'.op = "set" /\ last'.key # last.key
           /\ last.key \in last'.removed )
         => Stored(lru) \ {last'.key} \subseteq last'.removed ]_vars

\* C11 witness: a and b fill the cache, a has been read, and set(c, 1) has
\* evicted b and kept a
C11_Witness ==
  /\ last.op = "set" /\ last.key = "c"
  /\ last.removed = {"b"}
  /\ [i \in 1..Len(lru.entries) |-> lru.entries[i].key] = <<"a", "c">>
  /\ lru.entries[1].accessCount = 2

\* C12: get and has on a stored entry report a miss, delete the entry and
\* refund its size when more than ttl has passed since lastAccessed, and
\* report a hit otherwise.
C12_ExpiredIsMiss ==
  [][ (last'.op \in {"get", "has"} /\ MapHas(lru.entries, last'.key)) =>
        LET e == EntryOf(lru, last'.key)
        IN IF now - e.lastAccessed > lru.ttl
           THEN /\ ~last'.hit
                /\ ~MapHas(lru'.entries, last'.key)
                /\ lru'.currentSize = lru.currentSize - e.size
           ELSE /\ last'.hit
                /\ MapHas(lru'.entries, last'.key)
                /\ last'.op = "get" => last'.value = e.value ]_vars

\* C12 witness: a get has found its entry too old and removed it
C12_Witness ==
  /\ last.op = "get" /\ ~last.hit
  /\ last.removed = {last.key}

\* C13: has on an entry that is stored and not expired leaves the cache as
\* it was: order, lastAccessed, accessCount, item count and size.
C13_HasChangesNothing ==
  [][ (last'.op = "has" /\ last'.hit) => lru' = lru ]_vars

\* C13 witness: has has answered true for the least recently used of two
\* entries, which is still first in line
C13_Witness ==
  /\ last.op = "has" /\ last.hit
  /\ Len(lru.entries) = 2
  /\ lru.entries[1].key = last.key

\* C14: getStats().totalSize is the sum of the sizes of the stored entries.
C14_SizeIsSumOfEntries ==
  GetStats(lru).totalSize = SumSizes(lru.entries)

\* C14 witness: b was stored with size 1 beside a; set(b, ..., 4) has
\* replaced it, evicted a, and the size is 4
C14_Witness ==
  /\ last.op = "set" /\ last.key = "b" /\ last.size = 4
  /\ last.removed = {"a"}
  /\ lru.maxSize = 4
  /\ GetStats(lru).totalSize = 4
  /\ Len(lru.entries) = 1

\* C15: no cache exists with a maxSize or maxItems that is not positive.
C15_LimitsArePositive ==
  lru.maxSize > 0 /\ lru.maxItems > 0

\* C16: in a cache constructed without ttl, get on a stored key returns the
\* stored value however much time has passed.
C16_NoTtlNeverExpires ==
  [][ (last'.op = "get" /\ MapHas(lru.entries, last'.key)) =>
        /\ last'.hit
        /\ last'.value = EntryOf(lru, last'.key).value ]_vars

\* ------------------------------------------------------------------------
\* Properties of the server
\* ------------------------------------------------------------------------
MutationOps == {"writeFile", "deleteFile", "renameFile"}
LinkQueries == {"LinkParser.getForwardLinks", "LinkParser.getBacklinks"}

\* the notes a note links to, read off its content on disk
ActualLinks(d, file) ==
  LET links == ExtractAllLinks(d[file.name].content)
  IN { ResolveLink(links[i].target, file) : i \in 1..Len(links) } \ {file}

\* the notes on disk that link to a note
ActualBacklinks(d, path) ==
  { f \in Members(ListMarkdownFiles(d)) : path \in ActualLinks(d, f) }

Completed(call) == call.op \in MutationOps /\ ~call.threw

\* C3: after a completed write, delete or rename the next LinkParser query
\* rebuilds the graph and returns the links of the notes' current content.
C3_MutationInvalidatesGraph ==
  [][ (Completed(vlast) /\ vlast'.op \in LinkQueries) =>
        /\ vlast'.built
        /\ ~vlast'.threw =>
             Members(vlast'.links) =
               IF vlast'.op = "LinkParser.getForwardLinks"
               THEN (IF disk[vlast'.path.name].present
                     THEN ActualLinks(disk, vlast'.path) ELSE {})
               ELSE ActualBacklinks(disk, vlast'.path) ]_vars

\* C4: after a completed write, delete or rename, searchText returns what a
\* scan of the notes' current content returns, not an earlier response.
C4_SearchSeesCurrentContent ==
  [][ (Completed(vlast) /\ vlast'.op = "searchText") =>
        vlast'.results =
          SearchText(disk, unreadable, fileCache, NewCache(SearchCacheOptions),
                     vlast'.query, now).response.results ]_vars

\* C5: a completed writeFile, deleteFile or renameFile of p leaves no entry
\* for p in the content cache; the readFile(p) that follows writeFile(p, c)
\* returns c, read from disk, and the readFile(p) that follows a delete or
\* rename of p returns nothing cached.
C5_MutationInvalidatesContent ==
  [][ /\ Completed(vlast') =>
           ~MapHas(fileCache'.entries, EnsureMarkdownExtension(vlast'.path))
      /\ ( /\ Completed(vlast) /\ vlast'.op = "readFile"
           /\ EnsureMarkdownExtension(vlast'.path) = EnsureMarkdownExtension(vlast.path) )
         => /\ ~vlast'.fromCache
            /\ (vlast.op = "writeFile" /\ ~vlast'.threw) => vlast'.content = vlast.content
            /\ vlast.op # "writeFile" => vlast'.threw ]_vars

\* C5 witness: a writeFile has just removed the cached entry of its note
C5_Witness ==
  /\ vlast.op = "writeFile"
  /\ EnsureMarkdownExtension(vlast.path) \in vlast.removed
  /\ ~MapHas(fileCache.entries, EnsureMarkdownExtension(vlast.path))
  /\ disk[vlast.path.name].content = vlast.content

\* C6: buildLinkGraph completes whatever reads fail, and every listed note
\* is a node of the graph it returns.
C6_BuildSurvivesReadFailure ==
  vlast.op = "buildLinkGraph" =>
    /\ ~vlast.threw
    /\ PathsOf(vlast.nodes) = ListMarkdownFiles(disk)

\* C7: in the response of GraphUtils.getBacklinks(path) every scanned note is
\* either listed in errors or is in data exactly when its content links to
\* path.
C7_ScanReportsEveryFailure ==
  vlast.op = "GraphUtils.getBacklinks" =>
    \A file \in Members(ListMarkdownFiles(disk)) \ {EnsureMarkdownExtension(vlast.path)} :
      \/ \E i \in 1..Len(vlast.errors) : vlast.errors[i].path = file
      \/ file \in Members(vlast.data)
           <=> EnsureMarkdownExtension(vlast.path) \in ActualLinks(disk, file)

RenameDone(call) == call.op = "obsidian_rename_file" /\ ~call.threw

\* the notes of the vault other than one
OtherNotes(d, path) == Members(ListMarkdownFiles(d)) \ {path}

\* C17: when a rename with link updating has completed, every other note
\* that had a link resolving to the old path has a link resolving to the new
\* path, and no other note has a link resolving to the old path.
C17_RenameRewritesReferrers ==
  [][ RenameDone(vlast') =>
        LET oldFilePath == EnsureMarkdownExtension(vlast'.path)
            newFilePath == EnsureMarkdownExtension(vlast'.path2)
        IN /\ \A f \in OtherNotes(disk, oldFilePath) :
                oldFilePath \in ActualLinks(disk, f) =>
                  newFilePath \in ActualLinks(disk', f)
           /\ \A f \in OtherNotes(disk', newFilePath) :
                oldFilePath \notin ActualLinks(disk', f) ]_vars

IsLink(tok) == tok.kind = "wiki" \/ tok.kind = "markdown"

\* C18: when a rename of old.md to new.md with link updating has completed,
\* in every other note each link whose raw target is old or old.md is a link
\* to new with the same display text and every other token is as it was; the
\* renamed note's content is at the new path and the old path is gone.
C18_RenameRewritesRawTargets ==
  [][ RenameDone(vlast') =>
        LET old == EnsureMarkdownExtension(vlast'.path)
            new == EnsureMarkdownExtension(vlast'.path2)
        IN /\ \A f \in OtherNotes(disk, old) :
                LET before == disk[f.name].content
                    after == disk'[f.name].content
                IN /\ Len(after) = Len(before)
                   /\ \A l \in 1..Len(before) :
                        /\ Len(after[l]) = Len(before[l])
                        /\ \A i \in 1..Len(before[l]) :
                             IF IsLink(before[l][i]) /\ before[l][i].text = old.name
                             THEN /\ after[l][i].kind = before[l][i].kind
                                  /\ after[l][i].text = new.name
                                  /\ after[l][i].display = before[l][i].display
                             ELSE after[l][i] = before[l][i]
           /\ disk'[new.name] = disk[old.name]
           /\ ~disk'[old.name].present ]_vars

\* a call that has built the graph to the end
BuiltGraph(call) == call.built /\ ~call.threw

AllPaths == { MdPath(n) : n \in NameSet }

\* C19: in a built graph b is in getForwardLinks(a) exactly when a is in
\* getBacklinks(b): for LinkParser over all paths, and for GraphUtils over
\* the notes of the vault.
C19_AdjacencyIsInverse ==
  BuiltGraph(vlast) =>
    /\ \A a, b \in AllPaths :
         LET fwd == LinkGetForwardLinks(disk, unreadable, TheEngine, a, now)
             back == LinkGetBacklinks(disk, unreadable, TheEngine, b, now)
         IN /\ ~fwd.threw /\ ~back.threw
            /\ b \in Members(fwd.links) <=> a \in Members(back.links)
    /\ \A a, b \in Members(ListMarkdownFiles(disk)) :
         LET fwd == GraphGetForwardLinks(disk, unreadable, TheEngine, graphLinkCache,
                                         a, now)
             back == GraphGetBacklinks(disk, unreadable, TheEngine, graphLinkCache,
                                       b, now)
         IN b \in Members(fwd.data) <=> a \in Members(back.data)

\* C19 witness: a graph has been built in which one note links to two
\* others and two notes have backlinks
C19_Witness ==
  /\ BuiltGraph(vlast)
  /\ \E i \in 1..Len(linkCache) : Len(linkCache[i].value) >= 2
  /\ Len(backlinkCache) >= 2

\* the number of edges of a graph from a note, and to a note
EdgesFrom(edges, path) == Len(SelectSeq(edges, LAMBDA e : e.source = path))

EdgesTo(edges, path) == Len(SelectSeq(edges, LAMBDA e : e.target = path))

\* C20: in the graph buildLinkGraph returns, every node's links count is the
\* number of edges whose source it is and its backlinks count the number of
\* edges whose target it is.
C20_DegreesCountEdges ==
  (vlast.op = "buildLinkGraph" /\ ~vlast.threw) =>
    \A i \in 1..Len(vlast.nodes) :
      LET node == vlast.nodes[i]
      IN /\ node.links = EdgesFrom(vlast.edges, node.path)
         /\ node.backlinks = EdgesTo(vlast.edges, node.path)

\* a note whose content has a link that resolves to the note itself
LinksToItself(d, file) ==
  /\ d[file.name].present
  /\ \E i \in 1..Len(ExtractAllLinks(d[file.name].content)) :
       ResolveLink(ExtractAllLinks(d[file.name].content)[i].target, file) = file

\* C21: no note is among its own forward links or its own backlinks, for
\* LinkParser and for GraphUtils, and the graph buildLinkGraph returns has no
\* edge from a note to itself, whatever links the notes contain.
C21_NoSelfLinks ==
  /\ \A d \in AllPaths :
       /\ d \notin Members(LinkGetForwardLinks(disk, unreadable, TheEngine, d, now).links)
       /\ d \notin Members(LinkGetBacklinks(disk, unreadable, TheEngine, d, now).links)
       /\ d \notin Members(GraphGetForwardLinks(disk, unreadable, TheEngine,
                                                graphLinkCache, d, now).data)
       /\ d \notin Members(GraphGetBacklinks(disk, unreadable, TheEngine,
                                             graphLinkCache, d, now).data)
  /\ \A i \in 1..Len(vlast.edges) : vlast.edges[i].source # vlast.edges[i].target

\* C21 witness: a graph has been built of a vault in which a note links to
\* itself, and that note is a node with other links
C21_Witness ==
  /\ vlast.op = "buildLinkGraph" /\ ~vlast.threw
  /\ \E i \in 1..Len(vlast.nodes) :
       /\ LinksToItself(disk, vlast.nodes[i].path)
       /\ vlast.nodes[i].links > 0

ShortestPathOps == {"GraphUtils.findShortestPath", "LinkParser.findShortestPath"}

\* the forward edges of the vault's link graph: x is a note whose content has
\* a link that resolves to y, y other than x
Edge(d, x, y) == d[x.name].present /\ y \in ActualLinks(d, x)

\* y can be reached from x over at most k forward edges
RECURSIVE Within(_, _, _, _)
Within(d, x, y, k) ==
  IF k = 0 THEN x = y
  ELSE \/ Within(d, x, y, k - 1)
       \/ \E z \in AllPaths : Edge(d, x, z) /\ Within(d, z, y, k - 1)

Reachable(d, x, y) == Within(d, x, y, Cardinality(AllPaths))

\* the least number of forward edges from x to a reachable y
Hops(d, x, y) ==
  CHOOSE k \in 0..Cardinality(AllPaths) :
    Within(d, x, y, k) /\ (k = 0 \/ ~Within(d, x, y, k - 1))

\* p is a sequence of notes from x to y, each linking to the next
IsForwardPath(d, p, x, y) ==
  /\ Len(p) >= 1 /\ p[1] = x /\ p[Len(p)] = y
  /\ \A i \in 1..(Len(p) - 1) : Edge(d, p[i], p[i + 1])

\* C22: findShortestPath(source, target) returns a sequence of notes from
\* source to target over forward edges with the least number of hops when
\* target can be reached from source (<<source>> when they are the same
\* note), and the empty list, not null, when it cannot; it throws only when a
\* note cannot be read.
C22_ShortestPathIsLeast ==
  vlast.op \in ShortestPathOps =>
    LET source == EnsureMarkdownExtension(vlast.path)
        target == EnsureMarkdownExtension(vlast.path2)
    IN IF vlast.threw THEN \E n \in unreadable : disk[n].present
       ELSE /\ ~vlast.isNull
            /\ IF Reachable(disk, source, target)
               THEN /\ IsForwardPath(disk, vlast.data, source, target)
                    /\ Len(vlast.data) - 1 = Hops(disk, source, target)
               ELSE vlast.data = << >>

\* y can be reached from x over at most k links followed in either direction
RECURSIVE Near(_, _, _, _)
Near(d, x, y, k) ==
  IF k = 0 THEN x = y
  ELSE \/ Near(d, x, y, k - 1)
       \/ \E z \in AllPaths : (Edge(d, x, z) \/ Edge(d, z, x)) /\ Near(d, z, y, k - 1)

\* the least number of links, in either direction, from x to y
Distance(d, x, y) ==
  CHOOSE k \in 0..Cardinality(AllPaths) :
    Near(d, x, y, k) /\ (k = 0 \/ ~Near(d, x, y, k - 1))

\* the entries of a connections Map that record a document, "foo" and
\* "foo.md" being the same document
RecordsOf(connections, doc) ==
  { i \in 1..Len(connections) : EnsureMarkdownExtension(connections[i].key) = doc }

\* C23: getNoteConnections(path, depth) records every document within depth
\* hops of path exactly once, at its least hop distance, and no document
\* farther than depth; the start document is recorded once, at depth 0,
\* whether path is written with ".md" or without.
C23_ConnectionsOnceAtDistance ==
  vlast.op = "GraphUtils.getNoteConnections" =>
    LET start == EnsureMarkdownExtension(vlast.path)
    IN /\ \A doc \in AllPaths :
            IF Near(disk, start, doc, vlast.depth)
            THEN /\ Cardinality(RecordsOf(vlast.data, doc)) = 1
                 /\ \A i \in RecordsOf(vlast.data, doc) :
                      vlast.data[i].value.depth = Distance(disk, start, doc)
            ELSE RecordsOf(vlast.data, doc) = {}
       /\ \A i \in 1..Len(vlast.data) :
            EnsureMarkdownExtension(vlast.data[i].key) \in AllPaths

\* the listed notes that link to no other note and are linked to by no
\* other note
ActualOrphans(d) ==
  { f \in Members(ListMarkdownFiles(d)) :
      ActualLinks(d, f) = {} /\ ActualBacklinks(d, f) = {} }

\* C24: findOrphanedNotes returns, each once, exactly the listed notes that
\* have no forward links and no backlinks, links of a note to itself not
\* counted; on a vault without notes it returns the empty list and no error.
C24_OrphansAreUnlinked ==
  vlast.op = "GraphUtils.findOrphanedNotes" =>
    /\ Members(vlast.data) = ActualOrphans(disk)
    /\ Len(vlast.data) = Cardinality(ActualOrphans(disk))
    /\ ListMarkdownFiles(disk) = << >> => (vlast.data = << >> /\ vlast.errors = << >>)

\* ------------------------------------------------------------------------
\* Properties of batchProcess
\* ------------------------------------------------------------------------
\* C25: batchProcess returns one entry per item, in the order of the items;
\* the entry of an item is an error entry exactly when its processor threw
\* and carries the processor's result otherwise, and every item is processed
\* once whatever happened to the others.
C25_OneEntryPerItem ==
  scan.phase = "returned" =>
    /\ Len(scan.results) = Len(scan.items)
    /\ \A k \in 1..Len(scan.items) :
         /\ scan.promises[k].started = 1
         /\ k <= Len(scan.results) =>
              /\ scan.results[k].item = scan.items[k]
              /\ scan.results[k].isError = Processor(scan.items[k], scan.failing).threw
              /\ ~scan.results[k].isError =>
                   scan.results[k].result = Processor(scan.items[k], scan.failing).value

\* C25 witness: a call has returned in which the first item failed and the
\* items after it, in the same batch and in a later one, have their results
C25_Witness ==
  /\ scan.phase = "returned"
  /\ scan.batchSize = 2 /\ Len(scan.items) = 3
  /\ scan.results[1].isError
  /\ ~scan.results[2].isError /\ ~scan.results[3].isError

\* C26: at no instant are more processors in flight than the window of the
\* call, which is 10 for getVaultStatistics and never above 20.
C26_WindowBoundsInFlight ==
  /\ Cardinality(InFlight(scan)) <= scan.batchSize
  /\ Cardinality(InFlight(scan)) <= ReadmeConcurrentMax
  /\ scan.caller = "getVaultStatistics" => Cardinality(InFlight(scan)) <= 10

\* C26 witness: getVaultStatistics has a full window of processors in flight
\* and a document still waiting for the next batch
C26_Witness ==
  /\ scan.caller = "getVaultStatistics"
  /\ Cardinality(InFlight(scan)) = scan.batchSize
  /\ \E k \in 1..Len(scan.items) : scan.promises[k].state = "none"

\* ------------------------------------------------------------------------
\* Properties of findDuplicateNotes
\* ------------------------------------------------------------------------
\* the position of a file in the listing the scan went through
ListedAt(d, file) ==
  CHOOSE k \in 1..Len(ListMarkdownFiles(d)) : ListMarkdownFiles(d)[k] = file

\* the places of the groups returned: group g, member k
GroupPlaces(data) ==
  UNION { { <<g, k>> : k \in 1..Len(data[g].paths) } : g \in 1..Len(data) }

\* C27: the groups findDuplicateNotes returns are a partition of the matched
\* documents: a document is in at most one group, every group has at least
\* two members, two documents found similar are in one group, and a
\* document placed in a group is compared no more, neither as the anchor nor
\* as a candidate member of a later group
C27_GroupsArePartition ==
  vlast.op = "findDuplicateNotes" =>
    /\ \A g \in 1..Len(vlast.data) : Len(vlast.data[g].paths) >= 2
    /\ \A p, q \in GroupPlaces(vlast.data) :
         vlast.data[p[1]].paths[p[2]] = vlast.data[q[1]].paths[q[2]] => p = q
    /\ \A p \in GroupPlaces(vlast.data) :
         vlast.data[p[1]].paths[p[2]] \in Members(ListMarkdownFiles(disk))
    /\ \A k \in 1..Len(vlast.pairs) :
         ~RatioLess(vlast.pairs[k].similarity, vlast.options.threshold) =>
           \E g \in 1..Len(vlast.data) :
             /\ vlast.data[g].paths[1] = vlast.pairs[k].file1
             /\ vlast.pairs[k].file2 \in Members(vlast.data[g].paths)
    /\ \A k \in 1..Len(vlast.pairs), g \in 1..Len(vlast.data) :
         ListedAt(disk, vlast.data[g].paths[1]) < ListedAt(disk, vlast.pairs[k].file1) =>
           /\ vlast.pairs[k].file1 \notin Members(vlast.data[g].paths)
           /\ vlast.pairs[k].file2 \notin Members(vlast.data[g].paths)

\* a scan has returned two groups
C27_Witness ==
  /\ vlast.op = "findDuplicateNotes"
  /\ Len(vlast.data) = 2

\* the similarity of the titles of two notes, and of their contents: of the
\* texts, or by equality of the bytes when a note is over SAFE_SIZE_LIMIT
TitleSimilarity(file1, file2) ==
  CalculateStringSimilarity(ToLowerCase(Basename(file1)), ToLowerCase(Basename(file2)))

ContentSimilarity(d, file1, file2) ==
  IF FileSize(d, file1) > SAFE_SIZE_LIMIT \/ FileSize(d, file2) > SAFE_SIZE_LIMIT
  THEN IF Text(d[file1.name].content) = Text(d[file2.name].content)
       THEN Ratio(1, 1) ELSE Ratio(0, 1)
  ELSE CalculateStringSimilarity(Text(d[file1.name].content), Text(d[file2.name].content))

\* C28: with title and content checking both requested, the similarity a
\* group reports for its anchor and the member that set it is the greater of
\* their title similarity and their content similarity, with the type of the
\* greater; two notes of identical content are reported in one group, with
\* similarity 1 and type "content" when the group is the two of them
C28_ReportsGreaterSimilarity ==
  (/\ vlast.op = "findDuplicateNotes"
   /\ vlast.options.checkTitles
   /\ vlast.options.checkContent) =>
    /\ \A g \in 1..Len(vlast.data) :
         LET group == vlast.data[g]
             file1 == group.paths[1]
             file2 == group.paths[Len(group.paths)]
             title == TitleSimilarity(file1, file2)
             content == ContentSimilarity(disk, file1, file2)
         IN /\ group.similarity = IF RatioLess(title, content) THEN content ELSE title
            /\ RatioLess(title, content) => group.type = "content"
            /\ RatioLess(content, title) => group.type = "title"
    /\ \A file1, file2 \in Members(ListMarkdownFiles(disk)) :
         (/\ ListedAt(disk, file1) < ListedAt(disk, file2)
          /\ disk[file1.name].content = disk[file2.name].content) =>
           \E g \in 1..Len(vlast.data) :
             /\ {file1, file2} \subseteq Members(vlast.data[g].paths)
             /\ Len(vlast.data[g].paths) = 2 =>
                  /\ vlast.data[g].similarity = Ratio(1, 1)
                  /\ vlast.data[g].type = "content"

\* C29: in a scan that checks content, a pair of notes of at most
\* SAFE_SIZE_LIMIT = 51200 bytes each is compared as strings, and a pair with
\* a note of 51201 bytes or more is not read: it is decided by the hashes,
\* which are computed when the sizes are within a tenth of each other
C29_SizeDecidesComparison ==
  (vlast.op = "findDuplicateNotes" /\ vlast.options.checkContent) =>
    \A k \in 1..Len(vlast.pairs) :
      LET pair == vlast.pairs[k]
          file1Size == FileSize(disk, pair.file1)
          file2Size == FileSize(disk, pair.file2)
      IN /\ (file1Size <= 51200 /\ file2Size <= 51200) => pair.method = "string"
         /\ (file1Size >= 51201 \/ file2Size >= 51201) => pair.method \in {"hash", "sizes"}

\* ------------------------------------------------------------------------
\* Properties of calculateStringSimilarity
\* ------------------------------------------------------------------------
\* C30: the similarity of a string with itself is exactly 1, and the
\* similarity of two strings is the same in both orders, whether the longer
\* string has at most 1000 characters (Levenshtein distance of the whole
\* strings) or more (sampled)
C30_SelfIsOneAndSymmetric ==
  sim.called =>
    /\ sim.own = Ratio(1, 1)
    /\ sim.forward = sim.backward

\* two different strings of the sampled tier have been compared by their
\* samples, which are alike in part
C30_Witness ==
  /\ sim.called
  /\ Len(sim.str1) > MAX_LEVENSHTEIN_LENGTH
  /\ sim.str1 # sim.str2
  /\ RatioLess(Ratio(1, 2), sim.forward)
  /\ RatioLess(sim.forward, Ratio(1, 1))

\* ------------------------------------------------------------------------
\* Properties of updateLinks
\* ------------------------------------------------------------------------
\* C31: updateLinks is idempotent: applied a second time with the same
\* oldPath and newPath to its own result, it returns that result unchanged,
\* for every text and every pair of paths.
C31_UpdateLinksIdempotent == upd.calls >= 2 => upd.updated = upd.before

\* ------------------------------------------------------------------------
\* Properties of searchText
\* ------------------------------------------------------------------------
LineContains(line, query) ==
  \E i \in 1..Len(line) : line[i].kind = "word" /\ line[i].text = query

LinesContaining(content, query) ==
  { k \in 1..Len(SplitLines(content)) : LineContains(SplitLines(content)[k], query) }

ReportedLines(results, n) ==
  UNION { { results[r].matches[m].line : m \in 1..Len(results[r].matches) } :
            r \in { k \in 1..Len(results) : results[k].path.name = n } }

\* C32: a scan of searchText reports, for every note it read, exactly the
\* lines that contain the query, by their 1-based numbers, whatever lines
\* and notes were scanned before.
C32_ReportsEveryMatchingLine ==
  (vlast.op = "searchText" /\ ~vlast.fromCache) =>
    \A n \in NameSet :
      (disk[n].present /\ n \notin unreadable) =>
        ReportedLines(vlast.results, n) = LinesContaining(disk[n].content, vlast.query)

C34_FailedBuildNeedsRebuild ==
  [][ (vlast.built /\ vlast.threw /\ vlast'.op \in LinkQueries) => vlast'.built ]_vars

\* ------------------------------------------------------------------------
\* Properties of getVaultStatistics
\* ------------------------------------------------------------------------
RECURSIVE SumOfLinks(_, _)
SumOfLinks(d, files) ==
  IF files = << >> THEN 0
  ELSE Cardinality(ActualLinks(d, Head(files))) + SumOfLinks(d, Tail(files))

\* C35: while the processors of getVaultStatistics run side by side, every
\* getForwardLinks returns the forward links of its note as a completed
\* build has them, never what a build under way has stored so far, and
\* totalLinks is the sum of the notes' forward-link counts.
C35_LinksFromCompletedBuild ==
  /\ \A p \in DOMAIN stats.procs :
       stats.procs[p].pc = "done" =>
         Members(stats.procs[p].links) = ActualLinks(disk, stats.procs[p].file)
  /\ stats.phase = "returned" =>
       stats.totalLinks = SumOfLinks(disk, ListMarkdownFiles(disk))

\* ------------------------------------------------------------------------
\* Properties of overlapping readFile and writeFile
\* ------------------------------------------------------------------------
SameFile(c1, c2) == EnsureMarkdownExtension(c1.path) = EnsureMarkdownExtension(c2.path)

\* the write came between the read's disk read and its cache.set
WriteInsideRead(r, w) ==
  /\ r.op = "readFile" /\ r.missed /\ r.pc = "done" /\ ~r.threw
  /\ w.op = "writeFile" /\ w.pc = "done"
  /\ SameFile(r, w)
  /\ r.diskAt < w.diskAt /\ w.cacheAt < r.cacheAt

\* no other call has touched the file or its cache entry since
NothingAfter(r, w) ==
  \A i \in DOMAIN calls.list :
    LET c == calls.list[i]
    IN (SameFile(c, r) /\ c # r /\ c # w) =>
         /\ c.pc = "done"
         /\ c.diskAt < w.diskAt
         /\ c.cacheAt < r.cacheAt

\* C36: when a writeFile(p, c) has written the file and cleared the cache
\* entry between the disk read and the cache.set of a readFile(p) that
\* missed the cache, then, both calls having returned, readFile(p) returns c.
C36_OverlappedReadSeesWrite ==
  \A i, j \in DOMAIN calls.list :
    (WriteInsideRead(calls.list[i], calls.list[j])
     /\ NothingAfter(calls.list[i], calls.list[j])) =>
      ReadFile(disk, unreadable, fileCache, calls.list[j].path, now).content
        = calls.list[j].content

\* ------------------------------------------------------------------------
\* Properties of the content cache under other spellings of a path
\* ------------------------------------------------------------------------
\* the cached entries whose key names the same file as path in other words
OtherSpellings(c, path) ==
  { i \in 1..Len(c.entries) :
      /\ c.entries[i].key.name = path.name
      /\ c.entries[i].key # EnsureMarkdownExtension(path) }

\* C37: after a writeFile, deleteFile or renameFile of a note, no entry
\* cached under another string that names the same file still holds the
\* content from before: such an entry is gone or holds what the file holds
\* now.
C37_InvalidationCoversSpellings ==
  Completed(vlast) =>
    \A i \in OtherSpellings(fileCache, vlast.path) :
      /\ disk[vlast.path.name].present
      /\ fileCache.entries[i].value = disk[vlast.path.name].content


\* C38: whenever obsidian_rename_file reports failure, no document of the
\* vault has been modified: every note, the source among them, is at its path
\* with the content it had before the call.
C38_FailedRenameChangesNothing ==
  [][ (vlast'.op = "obsidian_rename_file" /\ vlast'.threw) => disk' = disk ]_vars

\* the note a link token of a note resolves to
TargetOf(tok, file) == ResolveLink([name |-> tok.text, md |-> tok.md], file)

\* C39: when a rename with link updating has completed, in every other note
\* each link that resolves to a note other than the renamed one is as it was,
\* and a note with no link resolving to the renamed note has the content it
\* had.
C39_RenameTouchesOnlyReferrers ==
  [][ RenameDone(vlast') =>
        LET oldFilePath == EnsureMarkdownExtension(vlast'.path)
        IN \A f \in OtherNotes(disk, oldFilePath) :
             LET before == disk[f.name].content
                 after == disk'[f.name].content
             IN /\ oldFilePath \notin ActualLinks(disk, f) => after = before
                /\ Len(after) = Len(before)
                /\ \A l \in 1..Len(before) :
                     /\ Len(after[l]) = Len(before[l])
                     /\ \A i \in 1..Len(before[l]) :
                          (IsLink(before[l][i])
                             /\ TargetOf(before[l][i], f) # oldFilePath)
                            => after[l][i] = before[l][i] ]_vars

BatchOps ==
  {"GraphUtils.findOrphanedNotes", "GraphUtils.getNoteConnections",
   "findDuplicateNotes"}

\* C40: the metadata of every batch response is consistent: successCount is
\* between 0 and totalProcessed, errorCount is the number of entries of
\* errors, and successCount + errorCount is totalProcessed.
C40_MetadataConsistent ==
  vlast.op \in BatchOps =>
    /\ 0 <= vlast.metadata.successCount
    /\ vlast.metadata.successCount <= vlast.metadata.totalProcessed
    /\ vlast.metadata.errorCount = Len(vlast.errors)
    /\ vlast.metadata.successCount + vlast.metadata.errorCount
         = vlast.metadata.totalProcessed
====
